---------------------------- MODULE Spec2Model ----------------------------
(***************************************************************************)
(* Model of the Data-Agent chat pipeline: the view-state reconciler of    *)
(* agent/view-lock.js and agent/include-restore.js, the tool-call loop    *)
(* (runAgent), the chat endpoint (routes/chat.js) with its in-memory      *)
(* conversation store, and the client's carried-forward Current View      *)
(* (frontend App.jsx, sendChatMessage).                                    *)
(*                                                                         *)
(* Utterances are real strings; the regular expressions of the source are *)
(* translated to matchers over character positions.  A JavaScript object  *)
(* is a function whose DOMAIN is the set of keys that are present:         *)
(* "delete o.k" removes k from the domain, "o.k = v" adds or overrides it. *)
(***************************************************************************)
EXTENDS Integers, Sequences, FiniteSets, TLC

(***************************************************************************)
(* Strings and regular-expression matching                                 *)
(***************************************************************************)

\* s[i] as a one-character string; "" outside the string
CharAt(s, i) == IF i >= 1 /\ i <= Len(s) THEN SubSeq(s, i, i) ELSE ""

UpperToLower ==
  [A |-> "a", B |-> "b", C |-> "c", D |-> "d", E |-> "e", F |-> "f", G |-> "g",
   H |-> "h", I |-> "i", J |-> "j", K |-> "k", L |-> "l", M |-> "m", N |-> "n",
   O |-> "o", P |-> "p", Q |-> "q", R |-> "r", S |-> "s", T |-> "t", U |-> "u",
   V |-> "v", W |-> "w", X |-> "x", Y |-> "y", Z |-> "z"]

\* String.prototype.toLowerCase, and the effect of the /i flag on the subject
RECURSIVE toLowerCase(_)
toLowerCase(s) ==
  IF Len(s) = 0 THEN ""
  ELSE LET c == SubSeq(s, 1, 1)
       IN  (IF c \in DOMAIN UpperToLower THEN UpperToLower[c] ELSE c)
             \o toLowerCase(SubSeq(s, 2, Len(s)))

\* String.prototype.trim (the utterances of the model hold no whitespace but " ")
RECURSIVE trim(_)
trim(s) ==
  IF Len(s) = 0 THEN ""
  ELSE IF SubSeq(s, 1, 1) = " " THEN trim(SubSeq(s, 2, Len(s)))
  ELSE IF SubSeq(s, Len(s), Len(s)) = " " THEN trim(SubSeq(s, 1, Len(s) - 1))
  ELSE s

\* String.prototype.includes
includes(s, p) ==
  \E i \in 1..(Len(s) - Len(p) + 1) : SubSeq(s, i, i + Len(p) - 1) = p

Digits == {"0", "1", "2", "3", "4", "5", "6", "7", "8", "9"}

\* \w on a lower-cased subject
WordChars ==
  {"a", "b", "c", "d", "e", "f", "g", "h", "i", "j", "k", "l", "m", "n", "o", "p",
   "q", "r", "s", "t", "u", "v", "w", "x", "y", "z", "_"} \cup Digits

\* A matcher maps a set P of positions (1..Len(s)+1, the position before s[i])
\* to the set of positions the pattern element can end at.
Anywhere(s) == 1..(Len(s) + 1)

\* a literal
Lit(s, P, w) ==
  {i + Len(w) : i \in {j \in P : j + Len(w) - 1 <= Len(s) /\ SubSeq(s, j, j + Len(w) - 1) = w}}

\* an alternation of literals (?:w1|w2|...)
LitOf(s, P, W) == UNION {Lit(s, P, w) : w \in W}

\* \b
Wb(s, P) == {i \in P : (CharAt(s, i - 1) \in WordChars) # (CharAt(s, i) \in WordChars)}

\* \s+
Ws(s, P) ==
  {j \in Anywhere(s) : \E i \in P : i < j /\ \A k \in i..(j - 1) : CharAt(s, k) = " "}

\* \s*
Ws0(s, P) == P \cup Ws(s, P)

\* .+
AnyChars(s, P) == {j \in Anywhere(s) : \E i \in P : i < j}

\* \d
Digit(s, P) == {i + 1 : i \in {j \in P : CharAt(s, j) \in Digits}}

\* (?:w)?
OptLit(s, P, w) == P \cup Lit(s, P, w)

\* (?:w\s+)?
OptLitWs(s, P, w) == P \cup Ws(s, Lit(s, P, w))

\* \b w1 \s+ w2, the common opening of the patterns
Words(s, P, w1, w2) == Lit(s, Ws(s, Lit(s, Wb(s, P), w1)), w2)

(***************************************************************************)
(* agent/view-lock.js: intent patterns                                     *)
(***************************************************************************)

\* VIEW_CHANGE_PATTERNS, on the lower-cased text (flag i)
ViewChangeMatch(s) ==
  LET A == Anywhere(s) IN
  \/ Wb(s, LitOf(s, Ws(s, Lit(s, Wb(s, A), "by")),
               {"industry", "segment", "geo", "region", "geo-segment", "geo_segment"})) # {}
  \/ Wb(s, Words(s, A, "breakdown", "by")) # {}
  \/ Wb(s, Words(s, A, "switch", "to")) # {}
  \/ Wb(s, Lit(s, Ws(s, Words(s, A, "show", "me")), "by")) # {}
  \/ Wb(s, LitOf(s, OptLitWs(s, Ws(s, Lit(s, Wb(s, A), "change")), "to"),
               {"view", "breakdown"})) # {}
  \/ Wb(s, Words(s, A, "different", "view")) # {}
     \* /\differently\s+by\b/ : the source's "\d" is a digit, not a word boundary
  \/ Wb(s, Lit(s, Ws(s, Lit(s, Digit(s, A), "ifferently")), "by")) # {}
  \/ Wb(s, Lit(s, Ws(s, OptLit(s, Lit(s, Wb(s, A), "group"), "ed")), "by")) # {}
  \/ Wb(s, Lit(s, Ws(s, LitOf(s, Wb(s, A), {"industry", "geo", "segment"})), "view")) # {}

\* (?:the\s+)?(?:rows?|emea|na|government|public\s+sector|mm|cml|segment|region)
RowTarget(s, P) ==
  LET Q == OptLitWs(s, P, "the") IN
  OptLit(s, Lit(s, Q, "row"), "s")
    \cup LitOf(s, Q, {"emea", "na", "government", "mm", "cml", "segment", "region"})
    \cup Lit(s, Ws(s, Lit(s, Q, "public")), "sector")

\* FILTER_ONLY_PATTERNS, on the lower-cased text
FilterOnlyMatch(s) ==
  LET A == Anywhere(s) IN
  \/ RowTarget(s, Ws(s, LitOf(s, Wb(s, A), {"remove", "exclude", "include"}))) # {}
  \/ Wb(s, LitOf(s, Ws(s, AnyChars(s, Ws(s, LitOf(s, Wb(s, A), {"add", "show", "bring"})))),
               {"back", "again"})) # {}
  \/ Ws(s, Lit(s, Wb(s, A), "restore")) # {}
  \/ Wb(s, LitOf(s, Ws(s, Lit(s, Wb(s, A), "only")),
               {"us", "na", "emea", "show", "display"})) # {}
  \/ Wb(s, Lit(s, Ws(s, Words(s, A, "only", "include")), "accounts")) # {}
  \/ Wb(s, OptLit(s, Lit(s, Ws(s, AnyChars(s, Ws(s, Lit(s, Wb(s, A), "only")))), "deal"), "s")) # {}
  \/ Ws(s, Lit(s, Ws(s, Lit(s, Ws(s, OptLit(s, Lit(s, Wb(s, A), "deal"), "s")), "that")),
               "included")) # {}
  \/ Wb(s, OptLit(s, Lit(s, Ws(s, AnyChars(s, Ws(s, Words(s, A, "restrict", "to")))),
                       "account"), "s")) # {}
  \/ Ws(s, Lit(s, Ws(s, Lit(s, OptLit(s, Lit(s, Wb(s, A), "don"), "'"), "t")), "include")) # {}
  \/ LET Q == OptLitWs(s, Ws(s, Lit(s, Wb(s, A), "drop")), "the")
     IN  OptLit(s, Lit(s, Q, "row"), "s") \cup LitOf(s, Q, {"emea", "mm", "cml"}) # {}
  \/ Wb(s, LitOf(s, Ws(s, LitOf(s, Wb(s, A), {"filter", "restrict"})), {"to", "by"})) # {}

\* /^(remove|exclude|include|only|drop)\s+/i
ShortFilterMatch(s) ==
  Ws(s, LitOf(s, {1}, {"remove", "exclude", "include", "only", "drop"})) # {}

isFilterOnlyRequest(message) ==
  LET text == trim(message)
      low  == toLowerCase(text)
  IN  IF Len(text) = 0 THEN FALSE
      ELSE IF ViewChangeMatch(low) THEN FALSE
      ELSE IF FilterOnlyMatch(low) THEN TRUE
      ELSE ShortFilterMatch(low) /\ Len(text) < 120

\* fy\d{2}
FY2(s, P) == Digit(s, Digit(s, Lit(s, P, "fy")))

\* TIME_REQUEST_PATTERNS, on the lower-cased text
TimeRequestMatch(s) ==
  LET A == Anywhere(s) IN
  \/ Wb(s, FY2(s, Wb(s, A))) # {}
  \/ Wb(s, Digit(s, Digit(s, Ws0(s, Lit(s, Wb(s, A), "fy"))))) # {}
  \/ Wb(s, Digit(s, Digit(s, Ws(s, Lit(s, OptLitWs(s, Wb(s, A), "fiscal"), "year"))))) # {}
  \/ Wb(s, FY2(s, OptLitWs(s, OptLitWs(s, OptLitWs(s, Wb(s, A), "only"), "show"), "for"))) # {}
  \/ Wb(s, LitOf(s, Lit(s, Ws(s, FY2(s, Wb(s, A))), "q"), {"1", "2", "3", "4"})) # {}
  \/ Wb(s, FY2(s, Ws(s, LitOf(s, Lit(s, Wb(s, A), "q"), {"1", "2", "3", "4"})))) # {}
  \/ LET RECURSIVE Digits1(_, _)
         \* \d+ : all positions after one or more digits
         Digits1(P, n) == IF n = 0 \/ P = {} THEN {}
                          ELSE LET D == Digit(s, P) IN D \cup Digits1(D, n - 1)
     IN  Wb(s, OptLit(s, Lit(s, Ws(s, Digits1(Ws(s, Lit(s, Wb(s, A), "last")), Len(s))),
                            "quarter"), "s")) # {}
  \/ Wb(s, LitOf(s, OptLitWs(s, OptLitWs(s, OptLitWs(s, OptLitWs(s, OptLitWs(s,
               Wb(s, A), "only"), "show"), "data"), "for"), "the"),
               {"quarter", "period"})) # {}
  \/ Wb(s, LitOf(s, Ws(s, AnyChars(s, Ws(s, LitOf(s, Wb(s, A), {"from", "between", "since"})))),
               {"to", "through", "onward", "onwards"})) # {}
  \/ Wb(s, Lit(s, Ws(s, Words(s, A, "only", "show")), "fy")) # {}
  \/ Wb(s, Words(s, A, "only", "fy")) # {}

userRequestedTimeChange(message) ==
  TimeRequestMatch(toLowerCase(trim(message)))

\* /\bonly\s+(?:include\s+)?(?:mm|mid-?market)\s*(?:accounts?)?\b/i  (view-lock.js:153)
OnlyMidMarketMatch(s) ==
  LET Q == OptLitWs(s, Ws(s, Lit(s, Wb(s, Anywhere(s)), "only")), "include")
      R == Ws0(s, Lit(s, Q, "mm") \cup Lit(s, OptLit(s, Lit(s, Q, "mid"), "-"), "market"))
  IN  Wb(s, R \cup OptLit(s, Lit(s, R, "account"), "s")) # {}

(***************************************************************************)
(* JavaScript objects and arrays                                           *)
(***************************************************************************)

Has(o, k) == k \in DOMAIN o

\* o.k = v
Put(o, k, v) == [x \in (DOMAIN o) \cup {k} |-> IF x = k THEN v ELSE o[x]]

\* delete o.k
Del(o, k) == [x \in (DOMAIN o) \ {k} |-> o[x]]

\* delete of several keys
DelAll(o, K) == [x \in (DOMAIN o) \ K |-> o[x]]

EmptyObject == [x \in {} |-> x]

\* JavaScript null as the value of a string-typed field (undefined is an absent key)
JsNull == "<null>"

\* Array.prototype.includes
Contains(list, v) == \E i \in 1..Len(list) : list[i] = v

Elements(list) == {list[i] : i \in 1..Len(list)}

\* Array.isArray(o.k) && o.k.length > 0 (list-typed keys hold arrays when present)
NonEmptyArray(o, k) == Has(o, k) /\ Len(o[k]) > 0

\* a string-typed field that is neither undefined, null nor ''
NonEmptyString(o, k) == Has(o, k) /\ o[k] # JsNull /\ o[k] # ""

(***************************************************************************)
(* views/first-purchase-views.js                                           *)
(***************************************************************************)

DEFAULT_FOUR_QUARTERS == "FY26 Q2,FY26 Q3,FY26 Q4,FY27 Q1"

\* PRESETS: id -> defaultParams (the keys the reconciler reads)
PRESETS ==
  [x \in {"first-purchase-overall", "first-purchase-by-industry",
          "first-purchase-by-geo-segment", "first-purchase-bridge", "asp-investigation"} |->
     CASE x = "first-purchase-overall" ->
            [timeWindow |-> DEFAULT_FOUR_QUARTERS, groupBy |-> JsNull]
       [] x = "first-purchase-by-industry" ->
            [timeWindow |-> DEFAULT_FOUR_QUARTERS, groupBy |-> "industry"]
       [] x = "first-purchase-by-geo-segment" ->
            [timeWindow |-> DEFAULT_FOUR_QUARTERS, groupBy |-> "geo_segment"]
       [] x = "first-purchase-bridge" ->
            [timeWindow |-> DEFAULT_FOUR_QUARTERS, groupBy |-> JsNull, viewType |-> "bridge"]
       [] x = "asp-investigation" ->
            [timeWindow |-> DEFAULT_FOUR_QUARTERS, viewType |-> "asp",
             products |-> <<"cm", "vg", "aim4">>]]

\* getViews().find((v) => v.id === presetId)?.defaultParams, as a set of at most one
PresetDefaults(presetId) == IF presetId \in DOMAIN PRESETS THEN {PRESETS[presetId]} ELSE {}

\* defaultParams.timeWindow ?? defaultParams.time_window, as a set of at most one
DefaultTimeWindow(dp) ==
  IF Has(dp, "timeWindow") /\ dp.timeWindow # JsNull THEN {dp.timeWindow}
  ELSE IF Has(dp, "time_window") /\ dp.time_window # JsNull THEN {dp.time_window}
  ELSE {}

\* defaultParams.groupBy ?? defaultParams.group_by, when it is a non-empty string
DefaultGroupBy(dp) ==
  IF NonEmptyString(dp, "groupBy") THEN {dp.groupBy}
  ELSE IF (~Has(dp, "groupBy") \/ dp.groupBy = JsNull) /\ NonEmptyString(dp, "group_by")
       THEN {dp.group_by}
  ELSE {}

(***************************************************************************)
(* agent/view-lock.js: applyCurrentViewLock                                *)
(***************************************************************************)

\* currentView.presetId != null && currentView.presetId !== '' ? String(...) : null
ViewPresetId(currentView) ==
  IF NonEmptyString(currentView, "presetId") THEN {currentView.presetId} ELSE {}

\* LockTimeWindow with the precedence reversed: the preset's default before the view's own
LockTimeWindowPresetFirst(currentView) ==
  LET fromPreset == UNION {UNION {{tw \in DefaultTimeWindow(dp) : tw # ""} : dp \in PresetDefaults(p)} :
                           p \in ViewPresetId(currentView)}
  IN  IF fromPreset # {} THEN fromPreset
      ELSE IF NonEmptyString(currentView, "time_window") THEN {currentView.time_window}
      ELSE {}

\* the local timeWindow after lines 112-123, when it is neither null nor ''
LockTimeWindow(currentView) ==
  IF NonEmptyString(currentView, "time_window") THEN {currentView.time_window}
  ELSE UNION {UNION {{tw \in DefaultTimeWindow(dp) : tw # ""} : dp \in PresetDefaults(p)} :
              p \in ViewPresetId(currentView)}

\* the local groupBy after lines 113-123, when it is neither null nor ''
LockGroupBy(currentView) ==
  IF Has(currentView, "group_by")
  THEN IF NonEmptyString(currentView, "group_by") THEN {currentView.group_by} ELSE {}
  ELSE UNION {UNION {DefaultGroupBy(dp) : dp \in PresetDefaults(p)} :
              p \in ViewPresetId(currentView)}

\* lines 140-146: the products of the ASP view
LockProducts(currentView, presetId) ==
  IF NonEmptyArray(currentView, "products") THEN currentView.products
  ELSE IF \E dp \in PresetDefaults(presetId) : NonEmptyArray(dp, "products")
       THEN (CHOOSE dp \in PresetDefaults(presetId) : TRUE).products
  ELSE <<"cm", "vg", "aim4">>

applyCurrentViewLock(args, currentView, userMessage) ==
  LET presetId == ViewPresetId(currentView)
      preserveModelTime == Len(userMessage) > 0 /\ userRequestedTimeChange(userMessage)
      a1 == IF ~preserveModelTime /\ LockTimeWindow(currentView) # {}
            THEN Put(args, "time_window", CHOOSE tw \in LockTimeWindow(currentView) : TRUE)
            ELSE args
      a2 == IF presetId # {} THEN Put(a1, "preset_id", CHOOSE p \in presetId : TRUE) ELSE a1
  IN  IF presetId = {"first-purchase-bridge"}
      THEN Del(Put(a2, "view_type", "bridge"), "group_by")
      ELSE IF presetId = {"asp-investigation"}
      THEN LET b1 == Del(Put(Put(a2, "view_type", "asp"), "products",
                             LockProducts(currentView, "asp-investigation")), "group_by")
               b2 == IF NonEmptyArray(currentView, "regions") /\ ~NonEmptyArray(b1, "regions")
                     THEN Put(b1, "regions", currentView.regions)
                     ELSE b1
           IN  IF Len(userMessage) > 0 /\ OnlyMidMarketMatch(toLowerCase(trim(userMessage)))
                  /\ ~NonEmptyArray(b2, "segments")
               THEN Put(b2, "segments", <<"MM">>)
               ELSE b2
      ELSE IF LockGroupBy(currentView) # {}
      THEN Put(a2, "group_by", CHOOSE g \in LockGroupBy(currentView) : TRUE)
      ELSE a2

(***************************************************************************)
(* agent/include-restore.js                                                *)
(***************************************************************************)

\* INCLUDE_RESTORE_PATTERN, on the lower-cased text
IncludeRestoreMatch(s) ==
  LET B == Wb(s, Anywhere(s)) IN
  Wb(s, LitOf(s, B, {"include", "restore"})
        \cup Lit(s, Ws(s, AnyChars(s, Ws(s, Lit(s, B, "add")))), "back")
        \cup Lit(s, Ws(s, AnyChars(s, Ws(s, Lit(s, B, "show")))), "again")
        \cup Words(s, Anywhere(s), "bring", "back")) # {}

isIncludeRestoreIntent(message) ==
  LET text == trim(message)
  IN  Len(text) > 0 /\ IncludeRestoreMatch(toLowerCase(text))

\* PHRASE_TO_REGIONS: <<phrase, table values>>
PHRASE_TO_REGIONS ==
  { <<"public sector", {"US - SLED", "US-SLED"}>>,
    <<"government", {"US - SLED", "US-SLED"}>>,
    <<"us-sled", {"US - SLED", "US-SLED"}>>,
    <<"us sled", {"US - SLED", "US-SLED"}>>,
    <<"emea", {"UK", "DACH", "FR", "BNL"}>>,
    <<"europe", {"UK", "DACH", "FR", "BNL"}>>,
    <<"na", {"US", "CA", "MX", "US - SLED", "US-SLED"}>>,
    <<"north america", {"US", "CA", "MX", "US - SLED", "US-SLED"}>>,
    <<"uk", {"UK"}>>, <<"dach", {"DACH"}>>, <<"fr", {"FR"}>>, <<"france", {"FR"}>>,
    <<"bnl", {"BNL"}>>, <<"benelux", {"BNL"}>>, <<"us", {"US"}>>, <<"canada", {"CA"}>>,
    <<"ca", {"CA"}>>, <<"mexico", {"MX"}>>, <<"mx", {"MX"}>> }

\* PHRASE_TO_SEGMENTS: <<phrase, table values>>
PHRASE_TO_SEGMENTS ==
  { <<"cml", {"CML"}>>, <<"mm", {"MM"}>>, <<"mid market", {"MM"}>>, <<"mid-market", {"MM"}>>,
    <<"core", {"ENT - COR"}>>, <<"ent - cor", {"ENT - COR"}>>, <<"ent-cor", {"ENT - COR"}>>,
    <<"select", {"ENT - SEL"}>>, <<"ent - sel", {"ENT - SEL"}>>, <<"ent-sel", {"ENT - SEL"}>>,
    <<"strategic", {"ENT - STR"}>>, <<"ent - str", {"ENT - STR"}>>, <<"ent-str", {"ENT - STR"}>>,
    <<"public sector mm", {"US - SLED-MM"}>>, <<"government mm", {"US - SLED-MM"}>>,
    <<"public sector mid market", {"US - SLED-MM"}>>,
    <<"public sector sel", {"US - SLED-ENT - SEL"}>>,
    <<"government sel", {"US - SLED-ENT - SEL"}>>,
    <<"public sector select", {"US - SLED-ENT - SEL"}>>,
    <<"government select", {"US - SLED-ENT - SEL"}>>,
    <<"us - sled-mm", {"US - SLED-MM"}>>, <<"us-sled-mm", {"US - SLED-MM"}>>,
    <<"us - sled-ent - sel", {"US - SLED-ENT - SEL"}>>,
    <<"us-sled-ent - sel", {"US - SLED-ENT - SEL"}>> }

\* the values of every phrase of the table that the lower-cased message includes
PhraseValues(table, lower) == UNION {e[2] : e \in {x \in table : includes(lower, x[1])}}

\* the out.regions / out.segments / out.industries lists, as sets (only membership is used)
getValuesToRestore(message) ==
  LET lower == toLowerCase(message)
  IN  [regions    |-> PhraseValues(PHRASE_TO_REGIONS, lower),
       segments   |-> PhraseValues(PHRASE_TO_SEGMENTS, lower),
       industries |-> {}]

\* lines 236-240: one exclude_* list with the restored values filtered out
RestoreList(args, key, values) ==
  IF values # {} /\ NonEmptyArray(args, key)
  THEN LET next == SelectSeq(args[key], LAMBDA r : r \notin values)
       IN  IF Len(next) = 0 THEN Del(args, key) ELSE Put(args, key, next)
  ELSE args

applyIncludeRestoreCorrection(args, currentView, userMessage) ==
  LET toRestore == getValuesToRestore(userMessage)
  IN  IF ~isIncludeRestoreIntent(userMessage) THEN args
      ELSE IF toRestore.regions = {} /\ toRestore.segments = {} /\ toRestore.industries = {}
      THEN args
      ELSE RestoreList(RestoreList(RestoreList(args,
             "exclude_regions", toRestore.regions),
             "exclude_segments", toRestore.segments),
             "exclude_industries", toRestore.industries)

\* RESTORE_UNFILTERED_PATTERN, on the lower-cased text
RestoreUnfilteredMatch(s) ==
  LET B == Wb(s, Anywhere(s)) IN
  Wb(s, LitOf(s, OptLitWs(s, OptLitWs(s, OptLitWs(s, Ws(s, Lit(s, B, "restore")),
                 "the"), "original"), "unfiltered"), {"table", "view", "data"})
        \cup OptLit(s, Lit(s, Ws(s, Lit(s, Ws(s, LitOf(s, B, {"remove", "clear"})), "all")),
                        "filter"), "s")
        \cup LitOf(s, Ws(s, LitOf(s, OptLitWs(s, Ws(s, Lit(s, B, "show")), "the"),
                                  {"full", "unfiltered"})), {"table", "view", "data"})
        \cup LitOf(s, Ws(s, Lit(s, B, "unfiltered")), {"table", "view"})) # {}

isRestoreUnfilteredRequest(message) ==
  Len(message) > 0 /\ RestoreUnfilteredMatch(toLowerCase(trim(message)))

\* the keys applyRestoreUnfiltered deletes
RowFilterKeys ==
  {"exclude_regions", "exclude_segments", "exclude_industries", "regions", "segments",
   "industries", "region", "segment", "industry"}

applyRestoreUnfiltered(args, userMessage) ==
  IF ~isRestoreUnfilteredRequest(userMessage) THEN args
  ELSE DelAll(args, RowFilterKeys \cup {"include_product"})

\* ADD_PRODUCT_PATTERN, on the lower-cased text
AddProductMatch(s) ==
  LET B == Wb(s, Anywhere(s))
      \* that\s+also\s+had?
      ThatAlsoHad(P) == OptLit(s, Lit(s, Ws(s, Lit(s, Ws(s, Lit(s, P, "that")), "also")), "ha"), "d")
  IN  Wb(s, Lit(s, B, "also")
            \cup Lit(s, Ws(s, Lit(s, B, "and")), "also")
            \cup ThatAlsoHad(B)
            \cup Lit(s, Ws(s, Lit(s, B, "in")), "addition")
            \cup Wb(s, LitOf(s, Ws(s, Lit(s, B, "add")),
                       {"aim4", "vg", "cm", "telematics", "safety", "st", "flapps", "cc",
                        "cw", "ct", "cnav", "moby", "rp"}))
            \cup ThatAlsoHad(Ws(s, OptLit(s, LitOf(s, Ws(s, Lit(s, B, "only")),
                                                   {"account", "deal"}), "s")))
            \cup ThatAlsoHad(Ws(s, OptLit(s, LitOf(s, B, {"account", "deal"}), "s")))) # {}

\* lines 309-315: current, then each trimmed non-empty new key not yet in the list
RECURSIVE ProductUnion(_, _)
ProductUnion(union, fromArgs) ==
  IF Len(fromArgs) = 0 THEN union
  ELSE LET key == trim(Head(fromArgs))
       IN  ProductUnion(IF Len(key) > 0 /\ ~Contains(union, key) THEN Append(union, key) ELSE union,
                 Tail(fromArgs))

applyProductFilterMerge(args, currentView, userMessage) ==
  IF ~NonEmptyArray(currentView, "include_product") THEN args
  ELSE IF Len(userMessage) = 0 THEN args
  ELSE IF ~AddProductMatch(toLowerCase(trim(userMessage))) THEN args
  ELSE Put(args, "include_product",
           ProductUnion(currentView.include_product,
                 IF Has(args, "include_product") THEN args.include_product ELSE <<>>))

(***************************************************************************)
(* agent/loop.js: the reconciliation block of runAgent (lines 381-398)     *)
(***************************************************************************)

\* lines 390-397: reset time_window to the preset's default on "restore unfiltered"
applyDefaultTime(args, currentView, lastUserMessage) ==
  IF Len(lastUserMessage) > 0 /\ isRestoreUnfilteredRequest(lastUserMessage)
     /\ NonEmptyString(currentView, "presetId")
  THEN LET defaultTime == UNION {DefaultTimeWindow(dp) : dp \in PresetDefaults(currentView.presetId)}
       IN  IF defaultTime # {} /\ defaultTime # {""}
           THEN Put(args, "time_window", CHOOSE tw \in defaultTime : TRUE)
           ELSE args
  ELSE args

\* lockIfFilterOnly without the intent test: the lock applied to every utterance
lockOnEveryUtterance(args, currentView, lastUserMessage) ==
  IF Len(lastUserMessage) > 0
  THEN applyCurrentViewLock(args, currentView, lastUserMessage)
  ELSE args

\* lines 382-384
lockIfFilterOnly(args, currentView, lastUserMessage) ==
  IF Len(lastUserMessage) > 0
     /\ (isFilterOnlyRequest(lastUserMessage) \/ isRestoreUnfilteredRequest(lastUserMessage))
  THEN applyCurrentViewLock(args, currentView, lastUserMessage)
  ELSE args

\* lines 385-389
applyCorrections(args, currentView, lastUserMessage) ==
  IF Len(lastUserMessage) > 0
  THEN applyProductFilterMerge(
         applyIncludeRestoreCorrection(
           applyRestoreUnfiltered(args, lastUserMessage), currentView, lastUserMessage),
         currentView, lastUserMessage)
  ELSE args

\* the arguments get_mrrpv is executed with, for a truthy currentView
reconcile(args, currentView, lastUserMessage) ==
  applyDefaultTime(
    applyCorrections(
      lockIfFilterOnly(args, currentView, lastUserMessage), currentView, lastUserMessage),
    currentView, lastUserMessage)

(***************************************************************************)
(* Bounds and input sets                                                   *)
(***************************************************************************)

\* chat turns of one client session
MaxTurns == 2

\* tool calls in one reply of the language model
MaxToolCalls == 2

\* what the user may type (reconciler specification)
Utterances ==
  { "exclude EMEA",
    "exclude EMEA for the quarter",
    "include EMEA again",
    "only accounts that also had AIM4",
    "also add AIM4",
    "remove all filters",
    "also clear all filters",
    "also add AIM4 and remove all filters",
    "show me by industry",
    "exclude EMEA by industry",
    "switch to industry view and remove all filters",
    "what was MRRpV in FY26 Q4",
    "only include MM accounts" }

\* every object that takes, for each key of choices, one of its values or leaves the key out
RECURSIVE Objects(_)
Objects(choices) ==
  IF DOMAIN choices = {} THEN {EmptyObject}
  ELSE LET k    == CHOOSE x \in DOMAIN choices : TRUE
           rest == Objects([x \in (DOMAIN choices) \ {k} |-> choices[x]])
       IN  rest \cup {Put(o, k, v) : o \in rest, v \in choices[k]}

\* object o extended with the keys of object e
Merge(o, e) == [k \in DOMAIN o \cup DOMAIN e |-> IF k \in DOMAIN e THEN e[k] ELSE o[k]]

EMEA == <<"UK", "DACH", "FR", "BNL">>

\* get_mrrpv arguments the language model may propose (types as in the tool schema):
\* any of the structural fields, with at most one filter
ProposedArgs ==
  { Merge(s, f) :
      s \in Objects([group_by    |-> {"industry"},
                     preset_id   |-> {"first-purchase-bridge"},
                     time_window |-> {"FY25 Q1"}]),
      f \in Objects([exclude_regions |-> {EMEA, <<"US">> \o EMEA}])
            \cup {[include_product |-> <<" aim4">>]} }

\* the currentView objects a client may send: a grouped or ungrouped preset view, as run
\* or as a chat turn left it, with at most one filter; the bridge and the ASP view as run
CurrentViews ==
  { Merge(s, f) :
      s \in Objects([presetId    |-> {"first-purchase-overall", "first-purchase-by-industry"},
                     time_window |-> {"FY26 Q4"},
                     group_by    |-> {JsNull, "segment"}]),
      f \in Objects([exclude_regions |-> {<<"US">>}]) \cup {[include_product |-> <<"cm">>]} }
  \cup { [presetId |-> "first-purchase-bridge", time_window |-> DEFAULT_FOUR_QUARTERS,
          group_by |-> JsNull],
         [presetId |-> "asp-investigation", time_window |-> DEFAULT_FOUR_QUARTERS,
          products |-> <<"cm", "vg", "aim4">>] }

\* what the user may type to bring excluded rows back
RestoreUtterances ==
  { "include EMEA again", "include Canada again", "bring back public sector",
    "include mid market again" }

\* the exclude-lists the language model may propose with such an utterance
RestoreProposals ==
  Objects([exclude_regions  |-> {<<"US", "CA", "UK">>, <<"US - SLED", "US-SLED", "UK">>,
                                 EMEA \o <<"US">>},
           exclude_segments |-> {<<"MM", "CML">>}])

\* the current view of the request
RestoreViews ==
  { [presetId |-> "first-purchase-overall", time_window |-> "FY26 Q4"],
    [presetId |-> "first-purchase-by-industry", time_window |-> "FY26 Q4",
     exclude_regions |-> <<"US", "CA", "UK">>] }

(***************************************************************************)
(* State                                                                   *)
(***************************************************************************)

VARIABLES
  pc,             \* where the turn in flight stands
  \* --- client (App.jsx) ---
  querySummary,   \* useState querySummary: {} (null) or {object}
  selectedViewId, \* useState selectedViewId ('' when none)
  clientConvId,   \* useState conversationId: {} (null) or {id}
  \* --- request body and server handler locals (routes/chat.js) ---
  message,        \* req.body.message
  currentView,    \* req.body.currentView: {} (undefined) or {object}
  conversationId, \* the handler's conversationId
  history,        \* the handler's history: a reference into heap
  response,       \* what the handler answered
  \* --- server store ---
  conversations,  \* Map conversationId -> array reference
  heap,           \* array reference -> the array's contents
  remoteAddress,  \* x-forwarded-for or the socket's address of the request under way
  turns,          \* the locals of the handler calls that run side by side, by request
  rateLimitPerMinute,  \* RATE_LIMIT_PER_MINUTE, read from the environment at start
  rateLimitTimestamps, \* Map key -> the times of the requests let through
  \* --- runAgent locals (agent/loop.js) ---
  toolCalls,      \* message.tool_calls of the first reply, arguments parsed
  idx,            \* the tool call the for-loop stands at
  lastResultCalls,\* lastResult.toolCalls: <<[name, args]>> as executed
  toolResults,    \* the tool outputs collected for the follow-up call
  lastResult,     \* lastResult.result: {} (null) or {result}
  lastToolError,  \* {} (null) or {error message}
  agentOut,       \* what runAgent returned
  llmCalls,       \* how many times the turn called openai.chat.completions.create
  executed,       \* the ids of the tool calls handed to executeTool, in order
  \* --- executeTool and getMRRpV (agent/tools.js, queries/mrrpv.js) ---
  qpc,            \* where the tool invocation stands
  tool,           \* the invocation: [name, args, context]
  params,         \* what executeTool hands to getMRRpV: {} or {params}
  query,          \* the statement getMRRpV compiled: {} or {query}
  table,          \* the rows of the source table in the warehouse
  rows,           \* the rows the warehouse answered
  rawColumns,     \* the column names runSql returned with them (none without metadata)
  result,         \* what getMRRpV returned: {} or {[columns, rows, data]}
  toolOut,        \* what executeTool returned or threw: {} or {outcome}
  \* --- runSql (the Databricks client) ---
  sqlPc,          \* where runSql stands
  clock,          \* Date.now(), in seconds
  timeoutMs,      \* the parameter of runSql, in seconds
  start,          \* runSql's start
  wakeAt,         \* when the pending setTimeout fires
  sqlOut,         \* how runSql ended: {} or {outcome}
  \* --- history of the session (for multi-turn properties) ---
  trace           \* one record per finished chat turn

vars == <<pc, querySummary, selectedViewId, clientConvId, message, currentView,
          remoteAddress, turns,
          conversationId, history, response, conversations, heap, rateLimitPerMinute,
          rateLimitTimestamps, toolCalls, idx,
          lastResultCalls, toolResults, lastResult, lastToolError, agentOut, llmCalls,
          executed, qpc, tool, params, query, table, rows, rawColumns, result, toolOut,
          sqlPc, clock,
          timeoutMs, start, wakeAt, sqlOut, trace>>

clientVars == <<querySummary, selectedViewId, clientConvId>>
requestVars == <<message, currentView, remoteAddress, turns>>
rateVars == <<rateLimitPerMinute, rateLimitTimestamps>>
storeVars == <<conversations, heap, rateVars>>
agentVars == <<toolCalls, idx, lastResultCalls, toolResults, lastResult, lastToolError>>
queryVars == <<qpc, tool, params, query, table, rows, rawColumns, result, toolOut>>
sqlVars == <<sqlPc, clock, timeoutMs, start, wakeAt, sqlOut>>
backendVars == <<queryVars, sqlVars>>

NoResponse == [status |-> 0]

\* no tool invocation under way
QueryIdle ==
  /\ qpc = "idle"
  /\ tool = [name |-> "", args |-> EmptyObject, context |-> EmptyObject]
  /\ params = {}
  /\ query = {}
  /\ table = {}
  /\ rows = {}
  /\ rawColumns = <<>>
  /\ result = {}
  /\ toolOut = {}

\* RATE_LIMIT_PER_MINUTE is not set: no rate limit
RateLimitOff ==
  /\ rateLimitPerMinute = 0
  /\ rateLimitTimestamps = EmptyObject

\* no statement under way
SqlIdle ==
  /\ sqlPc = "idle"
  /\ clock = 0
  /\ timeoutMs = 0
  /\ start = 0
  /\ wakeAt = 0
  /\ sqlOut = {}

\* messages[messages.length - 1] of the history handed to runAgent
lastUserMessage ==
  LET messages == heap[history]
  IN  IF Len(messages) > 0 /\ messages[Len(messages)].role = "user"
      THEN messages[Len(messages)].content
      ELSE ""

(***************************************************************************)
(* agent/loop.js: the tool-call loop of runAgent                           *)
(***************************************************************************)

\* lines 375-398: the arguments of tool call tc as executed
effectiveArgs(tc) ==
  IF tc.name = "get_mrrpv" /\ currentView # {}
  THEN reconcile(tc.args, CHOOSE cv \in currentView : TRUE, lastUserMessage)
  ELSE tc.args

\* lines 375-419 changed to let a failing tool call end the turn
ToolStepAbortsOnFailure ==
  /\ pc = "tools"
  /\ idx <= Len(toolCalls)
  /\ LET tc   == toolCalls[idx]
         args == effectiveArgs(tc)
     IN  /\ lastResultCalls' = Append(lastResultCalls, [name |-> tc.name, args |-> args])
         /\ \E ok \in BOOLEAN :
              /\ ok => tc.name = "get_mrrpv"
              /\ IF ok
                 THEN /\ toolResults' = Append(toolResults, [tool_call_id |-> idx, success |-> TRUE])
                      /\ lastResult' = IF lastResult = {} THEN {[call |-> idx]} ELSE lastResult
                      /\ lastToolError' = {}
                      /\ pc' = IF idx = Len(toolCalls) THEN "llm2" ELSE "tools"
                 ELSE /\ pc' = "error"
                      /\ UNCHANGED <<toolResults, lastResult, lastToolError>>
  /\ executed' = Append(executed, idx)
  /\ idx' = idx + 1
  /\ UNCHANGED <<backendVars, clientVars, requestVars, conversationId, history, response,
                 storeVars, toolCalls, agentOut, llmCalls, trace>>

\* lines 375-419: one iteration of the for-loop; the query engine decides whether
\* executeTool returns or throws, an unknown tool name always throws
ToolStep ==
  /\ pc = "tools"
  /\ idx <= Len(toolCalls)
  /\ LET tc   == toolCalls[idx]
         args == effectiveArgs(tc)
     IN  /\ lastResultCalls' = Append(lastResultCalls, [name |-> tc.name, args |-> args])
         /\ \E ok \in BOOLEAN :
              /\ ok => tc.name = "get_mrrpv"
              /\ toolResults' = Append(toolResults, [tool_call_id |-> idx, success |-> ok])
              /\ IF tc.name # "get_mrrpv"
                 THEN UNCHANGED <<lastResult, lastToolError>>
                 ELSE IF ok
                 THEN /\ lastResult' = IF lastResult = {} THEN {[call |-> idx]} ELSE lastResult
                      /\ lastToolError' = {}
                 ELSE /\ lastToolError' = {"error"}
                      /\ UNCHANGED lastResult
  /\ executed' = Append(executed, idx)
  /\ idx' = idx + 1
  /\ pc' = IF idx = Len(toolCalls) THEN "llm2" ELSE "tools"
  /\ UNCHANGED <<backendVars, clientVars, requestVars, conversationId, history, response,
                 storeVars, toolCalls, agentOut, llmCalls, trace>>

(***************************************************************************)
(* Reconciler specification: one get_mrrpv tool call, for every utterance, *)
(* current view and proposal of the input sets                             *)
(***************************************************************************)

Init ==
  /\ pc = "tools"
  /\ querySummary = {}
  /\ selectedViewId = ""
  /\ clientConvId = {}
  /\ message \in Utterances
  /\ currentView \in {{cv} : cv \in CurrentViews} \cup {{}}
  /\ conversationId = "conv-1"
  /\ history = 1
  /\ response = NoResponse
  /\ conversations = EmptyObject
  /\ RateLimitOff
  /\ remoteAddress = "anon"
  /\ turns = <<>>
  /\ heap = <<  <<[role |-> "user", content |-> trim(message)]>>  >>
  /\ toolCalls \in {<<[name |-> "get_mrrpv", args |-> a]>> : a \in ProposedArgs}
  /\ idx = 1
  /\ lastResultCalls = <<>>
  /\ toolResults = <<>>
  /\ lastResult = {}
  /\ lastToolError = {}
  /\ agentOut = {}
  /\ llmCalls = 1
  /\ executed = <<>>
  /\ QueryIdle
  /\ SqlIdle
  /\ trace = <<>>

Next == ToolStep

Spec == Init /\ [][Next]_vars

(***************************************************************************)
(* Chat turns: the client (App.jsx sendChatMessage), the chat handler      *)
(* (routes/chat.js) and runAgent around the tool-call loop                 *)
(***************************************************************************)

\* what the user may type in a chat session
ChatUtterances == {"exclude EMEA", "include EMEA again", "show me by industry"}

\* get_mrrpv arguments the language model may propose in a chat session
ChatProposedArgs ==
  { EmptyObject,
    [exclude_regions |-> EMEA],
    [exclude_regions |-> <<"US">> \o EMEA],
    [group_by |-> "industry", time_window |-> "FY25 Q1"] }

\* the tool calls of one reply: a get_mrrpv call, or a call of a tool that does not exist
ProposedCalls ==
  {[name |-> "get_mrrpv", args |-> a] : a \in ChatProposedArgs}
    \cup {[name |-> "run_sql", args |-> EmptyObject]}

\* message.tool_calls || [] of the first reply
RECURSIVE CallLists(_)
CallLists(n) ==
  IF n = 0 THEN {<<>>}
  ELSE LET shorter == CallLists(n - 1)
       IN  shorter \cup {Append(l, c) : l \in {x \in shorter : Len(x) = n - 1}, c \in ProposedCalls}

\* the keys of querySummary that the chat handler copies from the call's arguments
SummaryKeys ==
  {"time_window", "group_by", "include_product", "region", "regions", "exclude_regions",
   "segment", "segments", "exclude_segments", "industries", "exclude_industries", "include_acv"}

\* the keys of querySummary that sendChatMessage copies into currentView
CarriedKeys ==
  {"time_window", "group_by", "region", "segment", "regions", "exclude_regions", "segments",
   "exclude_segments", "industries", "exclude_industries", "include_product", "products",
   "include_acv"}

\* object o without the keys outside K (JSON leaves out undefined members)
Restrict(o, K) == [k \in DOMAIN o \cap K |-> o[k]]

\* chat.js 233-251: the summary of the first get_mrrpv call, undefined when there is none
QuerySummaryOf(calls) ==
  LET mrrpv == {i \in 1..Len(calls) : calls[i].name = "get_mrrpv"}
  IN  IF mrrpv = {} THEN {}
      ELSE LET first == CHOOSE i \in mrrpv : \A j \in mrrpv : i <= j
           IN  {Merge([tool |-> "get_mrrpv"], Restrict(calls[first].args, SummaryKeys))}

\* App.jsx 665-685: the currentView of the request (label, display only, left out)
BuildCurrentView(viewId, summary) ==
  IF viewId \in DOMAIN PRESETS \/ summary # {}
  THEN LET carried == IF summary = {} THEN EmptyObject
                      ELSE Restrict(CHOOSE q \in summary : TRUE, CarriedKeys)
       IN  {IF viewId # "" THEN Merge(carried, [presetId |-> viewId]) ELSE carried}
  ELSE {}

\* App.jsx 636-646: querySummary after runPresetView ran preset viewId
PresetSummary(viewId) ==
  LET p == PRESETS[viewId]
  IN  Merge([tool |-> "get_mrrpv", time_window |-> p.timeWindow],
            IF Has(p, "groupBy") THEN [group_by |-> p.groupBy] ELSE EmptyObject)

\* the client states a chat session starts from: no view; a preset just run; a preset
\* view that an earlier chat turn left with a region excluded
ClientViews ==
  { <<"", {}>>,
    <<"first-purchase-overall", {PresetSummary("first-purchase-overall")}>>,
    <<"first-purchase-overall",
      {[tool |-> "get_mrrpv", time_window |-> DEFAULT_FOUR_QUARTERS,
        exclude_regions |-> <<"US">>]}>> }

\* conversations.get(id), as a set of at most one array
Stored(id) == IF Has(conversations, id) THEN {heap[conversations[id]]} ELSE {}

\* App.jsx 656-695: the client posts the utterance with the view it holds
SendChatMessage ==
  /\ pc = "idle"
  /\ Len(trace) < MaxTurns
  /\ \E userMessage \in ChatUtterances :
       LET text == trim(userMessage)
           view == BuildCurrentView(selectedViewId, querySummary)
       IN  /\ Len(text) > 0
           /\ message' = text
           /\ currentView' = view
           /\ remoteAddress' = remoteAddress
           /\ turns' = turns
           /\ trace' = Append(trace, [message |-> text, sentView |-> view, convId |-> "",
                                      storedBefore |-> {}, storedAfter |-> {},
                                      status |-> 0, effective |-> {}, queried |-> FALSE])
  /\ pc' = "handler"
  /\ UNCHANGED <<backendVars, clientVars, conversationId, history, response, storeVars,
                 agentVars, agentOut, llmCalls, executed>>

\* the rate-limit window of checkRateLimit: 60000 ms, in ticks of the clock (20 s)
RateWindow == 3

\* chat.js 166-176 changed to count the requests it turns away too
checkRateLimitCountsRejected(key, now) ==
  IF rateLimitPerMinute <= 0 THEN [error |-> {}, map |-> rateLimitTimestamps]
  ELSE LET oneMinAgo == now - RateWindow
           stored    == IF Has(rateLimitTimestamps, key) THEN rateLimitTimestamps[key] ELSE <<>>
           ts        == SelectSeq(stored, LAMBDA x : x > oneMinAgo)
       IN  IF Len(ts) >= rateLimitPerMinute
           THEN [error |-> {"Too many requests; try again in a minute."},
                 map   |-> Put(rateLimitTimestamps, key, Append(ts, now))]
           ELSE [error |-> {}, map |-> Put(rateLimitTimestamps, key, Append(ts, now))]

\* chat.js 166-176, checkRateLimit: the error (none for null) and the map afterwards
checkRateLimit(key, now) ==
  IF rateLimitPerMinute <= 0 THEN [error |-> {}, map |-> rateLimitTimestamps]
  ELSE LET oneMinAgo == now - RateWindow
           stored    == IF Has(rateLimitTimestamps, key) THEN rateLimitTimestamps[key] ELSE <<>>
           ts        == SelectSeq(stored, LAMBDA x : x > oneMinAgo)
       IN  IF Len(ts) >= rateLimitPerMinute
           THEN [error |-> {"Too many requests; try again in a minute."},
                 map   |-> rateLimitTimestamps]
           ELSE [error |-> {}, map |-> Put(rateLimitTimestamps, key, Append(ts, now))]

\* chat.js 188-204: the message checked, the conversation id, the rate limit; then the
\* stored array or a new one, the user message pushed onto it.  conversationId is never
\* empty (a missing one is made up from the time, here from the number of the request)
ChatHandlerStart ==
  /\ pc = "handler"
  /\ LET id      == IF clientConvId # {} /\ clientConvId # {""}
                    THEN CHOOSE c \in clientConvId : TRUE
                    ELSE "conv-" \o ToString(Len(trace))
         rateKey == IF id # "" THEN id ELSE remoteAddress
         rate    == checkRateLimit(rateKey, clock)
         user    == [role |-> "user", content |-> trim(message)]
     IN  IF message = ""
         THEN /\ response' = [status |-> 400]
              /\ pc' = "client"
              /\ UNCHANGED <<conversationId, history, heap, rateLimitTimestamps, trace>>
         ELSE IF rate.error # {}
         THEN /\ response' = [status |-> 429]
              /\ pc' = "client"
              /\ conversationId' = id
              /\ rateLimitTimestamps' = rate.map
              /\ trace' = [trace EXCEPT ![Len(trace)].convId = id,
                                        ![Len(trace)].storedBefore = Stored(id)]
              /\ UNCHANGED <<history, heap>>
         ELSE /\ conversationId' = id
              /\ rateLimitTimestamps' = rate.map
              /\ IF Has(conversations, id)
                 THEN /\ history' = conversations[id]
                      /\ heap' = [heap EXCEPT ![conversations[id]] = Append(@, user)]
                 ELSE /\ history' = Len(heap) + 1
                      /\ heap' = Append(heap, <<user>>)
              /\ trace' = [trace EXCEPT ![Len(trace)].convId = id,
                                        ![Len(trace)].storedBefore = Stored(id)]
              /\ response' = NoResponse
              /\ pc' = "llm1"
  /\ toolCalls' = <<>>
  /\ idx' = 1
  /\ lastResultCalls' = <<>>
  /\ toolResults' = <<>>
  /\ lastResult' = {}
  /\ lastToolError' = {}
  /\ agentOut' = {}
  /\ llmCalls' = 0
  /\ executed' = <<>>
  /\ UNCHANGED <<backendVars, clientVars, requestVars, conversations, rateLimitPerMinute>>

\* loop.js 347-368 changed to make the follow-up call after a reply without tool calls too
FirstReplyAlwaysFollowsUp ==
  /\ pc = "llm1"
  /\ \E calls \in CallLists(MaxToolCalls) :
       /\ toolCalls' = calls
       /\ agentOut' = agentOut
       /\ pc' = IF Len(calls) = 0 THEN "llm2" ELSE "tools"
  /\ llmCalls' = llmCalls + 1
  /\ UNCHANGED <<backendVars, clientVars, requestVars, conversationId, history, response,
                 storeVars, idx, lastResultCalls, toolResults, lastResult, lastToolError,
                 executed, trace>>

\* loop.js 347-368: the first reply of the language model; without tool calls runAgent
\* returns it
FirstReply ==
  /\ pc = "llm1"
  /\ \E calls \in CallLists(MaxToolCalls) :
       /\ toolCalls' = calls
       /\ IF Len(calls) = 0
          THEN /\ agentOut' = {[toolCalls |-> <<>>, lastResult |-> {}, lastToolError |-> {}]}
               /\ pc' = "finish"
          ELSE /\ agentOut' = agentOut
               /\ pc' = "tools"
  /\ llmCalls' = llmCalls + 1
  /\ UNCHANGED <<backendVars, clientVars, requestVars, conversationId, history, response,
                 storeVars, idx, lastResultCalls, toolResults, lastResult, lastToolError,
                 executed, trace>>

\* loop.js 422-441: the follow-up reply; runAgent returns the calls as executed
FollowUp ==
  /\ pc = "llm2"
  /\ agentOut' = {[toolCalls |-> lastResultCalls, lastResult |-> lastResult,
                   lastToolError |-> IF lastResult = {} THEN lastToolError ELSE {}]}
  /\ pc' = "finish"
  /\ llmCalls' = llmCalls + 1
  /\ UNCHANGED <<backendVars, clientVars, requestVars, conversationId, history, response,
                 storeVars, agentVars, executed, trace>>

\* loop.js 347, 428: a call of the language model throws (error or timeout), and so
\* does runAgent
LanguageModelFails ==
  /\ pc \in {"llm1", "llm2"}
  /\ pc' = "error"
  /\ llmCalls' = llmCalls + 1
  /\ UNCHANGED <<backendVars, clientVars, requestVars, conversationId, history, response,
                 storeVars, agentVars, agentOut, executed, trace>>

\* chat.js 208-269: the reply pushed, the array stored, the summary built, 200 answered
ChatHandlerFinish ==
  /\ pc = "finish"
  /\ LET out == CHOOSE o \in agentOut : TRUE
     IN  /\ heap' = [heap EXCEPT ![history] = Append(@, [role |-> "assistant", content |-> "reply"])]
         /\ conversations' = Put(conversations, conversationId, history)
         /\ UNCHANGED rateVars
         /\ response' = [status |-> 200, conversationId |-> conversationId,
                         querySummary |-> QuerySummaryOf(out.toolCalls),
                         lastResult |-> out.lastResult, lastToolError |-> out.lastToolError]
  /\ pc' = "client"
  /\ UNCHANGED <<backendVars, clientVars, requestVars, conversationId, history, agentVars,
                 agentOut, llmCalls, executed, trace>>

\* chat.js 212-218, 270-294: runAgent threw; 500 answered
ChatHandlerError ==
  /\ pc = "error"
  /\ response' = [status |-> 500]
  /\ pc' = "client"
  /\ UNCHANGED <<backendVars, clientVars, requestVars, conversationId, history, storeVars,
                 agentVars, agentOut, llmCalls, executed, trace>>

\* App.jsx 696-713: the client takes the answer
ClientReceive ==
  /\ pc = "client"
  /\ IF response.status = 200
     THEN /\ clientConvId' = {response.conversationId}
          /\ querySummary' = response.querySummary
     ELSE UNCHANGED <<clientConvId, querySummary>>
  /\ trace' = [trace EXCEPT
       ![Len(trace)].status = response.status,
       ![Len(trace)].storedAfter = Stored(conversationId),
       ![Len(trace)].effective =
          {lastResultCalls[i].args : i \in {j \in 1..Len(lastResultCalls) :
             /\ lastResultCalls[j].name = "get_mrrpv"
             /\ \A k \in 1..(j - 1) : lastResultCalls[k].name # "get_mrrpv"}},
       ![Len(trace)].queried = (response.status = 200 /\ response.lastResult # {})]
  /\ pc' = "idle"
  /\ UNCHANGED <<backendVars, selectedViewId, requestVars, conversationId, history, response,
                 storeVars, agentVars, agentOut, llmCalls, executed>>

InitChat ==
  /\ pc = "idle"
  /\ \E cv \in ClientViews : selectedViewId = cv[1] /\ querySummary = cv[2]
  /\ clientConvId = {}
  /\ message = ""
  /\ currentView = {}
  /\ conversationId = ""
  /\ history = 0
  /\ response = NoResponse
  /\ conversations = EmptyObject
  /\ RateLimitOff
  /\ remoteAddress = "anon"
  /\ turns = <<>>
  /\ heap = <<>>
  /\ toolCalls = <<>>
  /\ idx = 1
  /\ lastResultCalls = <<>>
  /\ toolResults = <<>>
  /\ lastResult = {}
  /\ lastToolError = {}
  /\ agentOut = {}
  /\ llmCalls = 0
  /\ executed = <<>>
  /\ QueryIdle
  /\ SqlIdle
  /\ trace = <<>>

NextChat ==
  \/ SendChatMessage
  \/ ChatHandlerStart
  \/ FirstReply
  \/ ToolStep
  \/ FollowUp
  \/ LanguageModelFails
  \/ ChatHandlerFinish
  \/ ChatHandlerError
  \/ ClientReceive

SpecChat == InitChat /\ [][NextChat]_vars

(***************************************************************************)
(* Properties of the reconciler (specification Spec)                       *)
(***************************************************************************)

\* the first tool call has been through the reconciliation block with a current view
Reconciled == Len(lastResultCalls) >= 1 /\ currentView # {} /\ toolCalls[1].name = "get_mrrpv"

TheView == CHOOSE cv \in currentView : TRUE
Proposed == toolCalls[1].args
Effective == lastResultCalls[1].args

\* the value of key k of object o, if it has one that is not null
Field(o, k) == IF Has(o, k) /\ o[k] # JsNull THEN {o[k]} ELSE {}

\* the values of list key k of object o (none when the key is absent)
ListOf(o, k) == IF Has(o, k) THEN Elements(o[k]) ELSE {}

\* the grouping dimension of the current view: its own, else its preset's
ViewGrouping(cv) == LockGroupBy(cv)

\* the three structural fields of a get_mrrpv argument object
Structure(args) ==
  <<Field(args, "group_by"), Field(args, "preset_id"), Field(args, "time_window")>>

\* C1: on a filter-only utterance the effective arguments have the grouping dimension
\* and the preset of the current view, whatever the model proposed - also when the
\* current view has no grouping dimension or no preset and the model proposes one.
C1_FilterOnlyKeepsGroupingAndPreset ==
  (Reconciled /\ isFilterOnlyRequest(lastUserMessage))
    => /\ Field(Effective, "group_by") = ViewGrouping(TheView)
       /\ Field(Effective, "preset_id") = ViewPresetId(TheView)

\* C2 as stated: on a filter-only utterance, when the current view has a time window,
\* the effective time_window is the current view's, whatever the utterance's words.
C2_FilterOnlyKeepsTimeWindow ==
  (Reconciled /\ NonEmptyString(TheView, "time_window")
     /\ isFilterOnlyRequest(lastUserMessage))
    => Field(Effective, "time_window") = {TheView.time_window}

\* C2 as amended: on a filter-only utterance that names no time period and does not ask
\* for the unfiltered view, when the current view has a time window, the effective
\* time_window is the current view's, whatever time_window the model proposed.
C2_FilterOnlyKeepsTimeWindowUnlessTimeRequested ==
  (Reconciled /\ NonEmptyString(TheView, "time_window")
     /\ isFilterOnlyRequest(lastUserMessage)
     /\ ~userRequestedTimeChange(lastUserMessage)
     /\ ~isRestoreUnfilteredRequest(lastUserMessage))
    => Field(Effective, "time_window") = {TheView.time_window}

\* C2 witness: such an utterance, the model proposing another time window than the
\* view's, and the view's time window in the executed call
C2_Witness ==
  /\ Reconciled /\ NonEmptyString(TheView, "time_window")
  /\ Field(Proposed, "time_window") = {"FY25 Q1"}
  /\ Field(Effective, "time_window") = {TheView.time_window}
  /\ TheView.time_window # "FY25 Q1"
  /\ isFilterOnlyRequest(lastUserMessage)
  /\ ~userRequestedTimeChange(lastUserMessage)
  /\ ~isRestoreUnfilteredRequest(lastUserMessage)

\* the utterance asks to exclude more values (and not to restore any)
ExcludeMoreRequest(m) ==
  /\ includes(toLowerCase(m), "exclude")
  /\ ~isIncludeRestoreIntent(m)
  /\ ~isRestoreUnfilteredRequest(m)

\* C3: on a filter-only edit that asks to exclude more values, every value the current
\* view already excludes is still excluded in the effective arguments, and so are the
\* newly requested values, even if the model proposed a list without the former.
C3_ExcludeListsAreUnioned ==
  (Reconciled /\ isFilterOnlyRequest(lastUserMessage) /\ ExcludeMoreRequest(lastUserMessage)
     /\ NonEmptyArray(Proposed, "exclude_regions"))
    => /\ ListOf(TheView, "exclude_regions") \subseteq ListOf(Effective, "exclude_regions")
       /\ getValuesToRestore(lastUserMessage).regions \subseteq ListOf(Effective, "exclude_regions")

\* the utterance asks to add a product to the current product filter
AddProductRequest(m) == Len(m) > 0 /\ AddProductMatch(toLowerCase(trim(m)))

\* C5: when the current view's include_product is a non-empty set P and the utterance
\* asks to also include a product Q that the model proposes, the effective
\* include_product contains every element of P and Q.
C5_ProductFilterIsMerged ==
  (Reconciled /\ NonEmptyArray(TheView, "include_product")
     /\ NonEmptyArray(Proposed, "include_product") /\ AddProductRequest(lastUserMessage))
    => /\ ListOf(TheView, "include_product") \subseteq ListOf(Effective, "include_product")
       /\ {trim(q) : q \in ListOf(Proposed, "include_product")}
            \subseteq ListOf(Effective, "include_product")

\* the default time window of the current view's preset, if it has a preset with one
PresetDefaultTime(cv) ==
  UNION {UNION {DefaultTimeWindow(dp) : dp \in PresetDefaults(p)} : p \in ViewPresetId(cv)}

\* C6: on a restore-unfiltered utterance the effective arguments carry no region,
\* segment or industry filter and no product filter, the time window is the preset's
\* default, and the grouping dimension and the preset are the current view's.
C6_RestoreUnfilteredClearsFilters ==
  (Reconciled /\ isRestoreUnfilteredRequest(lastUserMessage))
    => /\ DOMAIN Effective \cap (RowFilterKeys \cup {"include_product"}) = {}
       /\ PresetDefaultTime(TheView) # {}
            => Field(Effective, "time_window") = PresetDefaultTime(TheView)
       /\ Field(Effective, "group_by") = ViewGrouping(TheView)
       /\ Field(Effective, "preset_id") = ViewPresetId(TheView)

\* the utterance explicitly asks for another breakdown or preset
ViewChangeRequest(m) == Len(trim(m)) > 0 /\ ViewChangeMatch(toLowerCase(trim(m)))

\* C7: on a view-change utterance the effective group_by, preset_id and time_window are
\* exactly the ones the model proposed, also when the utterance contains filter or
\* restore wording.
C7_ViewChangePassesThrough ==
  (Reconciled /\ ViewChangeRequest(lastUserMessage))
    => Structure(Effective) = Structure(Proposed)

\* the utterance matches no intent pattern
NoIntent(m) ==
  ~isFilterOnlyRequest(m) /\ ~ViewChangeRequest(m) /\ ~isRestoreUnfilteredRequest(m)

ExcludedRegions(objs) == UNION {ListOf(o, "exclude_regions") : o \in objs}

\* turn i excluded the regions of a phrase and ran its query; turn i + 1 asked to
\* include the same phrase again and executed a get_mrrpv call
RoundTrip(i) ==
  /\ i \in 1..(Len(trace) - 1)
  /\ trace[i + 1].status # 0
  /\ ExcludeMoreRequest(trace[i].message)
  /\ getValuesToRestore(trace[i].message).regions # {}
  /\ trace[i].queried
  /\ getValuesToRestore(trace[i].message).regions \subseteq ExcludedRegions(trace[i].effective)
  /\ isIncludeRestoreIntent(trace[i + 1].message)
  /\ getValuesToRestore(trace[i + 1].message).regions
       = getValuesToRestore(trace[i].message).regions
  /\ trace[i + 1].effective # {}

\* C4: round trip over two turns: from a view whose exclude-list of regions is E, a turn
\* that excludes the values of phrase X followed by a turn that asks to include X again
\* executes with an exclude-list set-equal to E, the parameter omitted when E is empty.
C4_ExcludeThenIncludeRoundTrip ==
  \A i \in 1..(Len(trace) - 1) :
    RoundTrip(i) =>
      /\ ExcludedRegions(trace[i + 1].effective) = ExcludedRegions(trace[i].sentView)
      /\ ExcludedRegions(trace[i].sentView) = {}
           => \A a \in trace[i + 1].effective : ~Has(a, "exclude_regions")

\* C9: if a chat turn fails, the history stored for its conversation id is exactly what
\* it was before the turn started, for new and for already-stored conversation ids.
C9_FailedTurnLeavesStoredHistory ==
  \A i \in 1..Len(trace) :
    trace[i].status = 500 => trace[i].storedAfter = trace[i].storedBefore

\* the time window, grouping and filters of a currentView as sent
ViewState(view) == {Restrict(cv, CarriedKeys) : cv \in view}

\* C10: a turn that produced no successful query (its tool call failed, it failed
\* outright, or the model replied without a tool call) leaves the time window, grouping
\* and filters of the Current View sent on the next turn unchanged.
C10_ViewCarriedUnlessQuerySucceeded ==
  \A i \in 1..(Len(trace) - 1) :
    (trace[i].status # 0 /\ ~trace[i].queried)
      => ViewState(trace[i + 1].sentView) = ViewState(trace[i].sentView)

(***************************************************************************)
(* queries/column-glossary.js, queries/mrrpv.js: the sources and products  *)
(***************************************************************************)

\* column-glossary.js 11-65: plain-English product names and prefixes -> prefix
PLAIN_ENGLISH_TO_PREFIX ==
  [x \in {"telematics", "vg"} |-> "vg"] @@
  [x \in {"safety + telematics", "vgcm", "safety and telematics"} |-> "vgcm"] @@
  [x \in {"ai multicam", "aim4"} |-> "aim4"] @@
  [x \in {"camera", "cm", "safety"} |-> "cm"] @@
  [x \in {"dual facing camera", "dual camera", "cm_d"} |-> "cm_d"] @@
  [x \in {"single facing camera", "single camera", "cm_s"} |-> "cm_s"] @@
  [x \in {"st", "smart trailers", "stce", "trailers"} |-> "st"] @@
  [x \in {"worker safety", "worker application", "worker safety app", "cw"} |-> "cw"] @@
  [x \in {"connected training", "training", "ct"} |-> "ct"] @@
  [x \in {"c-nav", "cnav", "commercial navigation"} |-> "cnav"] @@
  [x \in {"flapps", "fleet applications", "fleet software", "software"} |-> "flapps"] @@
  [x \in {"camera connector", "camera connector portfolio", "cc"} |-> "cc"] @@
  [x \in {"hd camera connector", "ahd1"} |-> "ahd1"] @@
  [x \in {"360 visibility", "moby"} |-> "moby"] @@
  [x \in {"cam", "connected asset maintenance", "maintenance"} |-> "cam"] @@
  [x \in {"qual", "qualifications", "connected qualifications"} |-> "qual"] @@
  [x \in {"rp"} |-> "rp"] @@
  [x \in {"sat", "satellite"} |-> "sat"] @@
  [x \in {"fa"} |-> "fa"] @@
  [x \in {"subsidy"} |-> "subsidy"] @@
  [x \in {"other"} |-> "other"]

\* resolveProductArea: the prefix as a set, {} for null
resolveProductArea(input) ==
  LET key == toLowerCase(trim(input))
  IN  IF key \in DOMAIN PLAIN_ENGLISH_TO_PREFIX THEN {PLAIN_ENGLISH_TO_PREFIX[key]} ELSE {}

\* mrrpv.js 16-51: what the query compiler reads of a source (valueCol as a set, {} for
\* none; arrCol only where there is no valueCol)
SOURCE_CONFIG ==
  [fleet |->
     [table |-> "mrrpv_fleet", timeCol |-> "close_quarter", valueCol |-> {},
      arrCol |-> {"fleet_arr"}, countCol |-> "vehicle_count", annual |-> TRUE,
      groupBySqlColumn |-> [segment |-> <<"segment">>, geo |-> <<"geo">>],
      allowedGroupBy |-> <<"segment", "geo">>],
   first_purchase |->
     [table |-> "mrrpv_first_purchase", timeCol |-> "close_quarter", valueCol |-> {"mrrpv"},
      arrCol |-> {}, countCol |-> "vehicle_count", annual |-> FALSE,
      groupBySqlColumn |-> [industry |-> <<"industry">>, segment |-> <<"segment">>,
                            geo |-> <<"geo">>, geo_segment |-> <<"geo", "segment">>],
      allowedGroupBy |-> <<"industry", "segment", "geo", "geo_segment">>],
   upsell |->
     [table |-> "mrrpv_upsell", timeCol |-> "close_quarter", valueCol |-> {},
      arrCol |-> {"upsell_fleet_arr"}, countCol |-> "upsell_vehicle_count", annual |-> TRUE,
      groupBySqlColumn |-> [industry |-> <<"industry">>, segment |-> <<"segment">>,
                            geo |-> <<"geo">>, geo_segment |-> <<"geo", "segment">>],
      allowedGroupBy |-> <<"industry", "segment", "geo", "geo_segment">>]]

\* mrrpv.js 56-57, 110: SOURCE_CONFIG[key] and PRODUCT_COUNT_COLUMNS[dataSource] read an
\* object literal, which also answers for the members it inherits from Object.prototype;
\* these are the inherited names that are their own lower case
ObjectPrototypeKeys == {"constructor", "__proto__"}

\* mrrpv.js 53
DATA_SOURCES == <<"fleet", "first_purchase", "upsell">>

\* mrrpv.js 67-80: product prefix -> the license-count column of the source
PRODUCT_COUNT_COLUMNS ==
  [first_purchase |->
     [aim4 |-> "aim4_count", vg |-> "vg_count", cm |-> "cm_count", st |-> "st_count",
      cw |-> "cw_count", ct |-> "ct_count", cnav |-> "cnav_count", fa |-> "fa_count",
      rp |-> "rp_count", qual |-> "qual_count", cam |-> "cam_count", moby |-> "moby_count",
      sat |-> "sat_count", ahd1 |-> "ahd1_count", cm_s |-> "cm_s_count",
      cm_d |-> "cm_d_count"],
   upsell |-> [vg |-> "vg_upsell_qty", cm |-> "cm_upsell_qty"],
   fleet |->
     [vg |-> "total_vg", cm |-> "total_cm", st |-> "total_st", cw |-> "total_cw",
      ct |-> "total_ct", cnav |-> "total_cn", rp |-> "total_rp", aim4 |-> "total_am"]]

\* mrrpv.js 112: Object.keys(PRODUCT_COUNT_COLUMNS[dataSource])
productKeys(dataSource) ==
  IF dataSource = "first_purchase"
  THEN <<"aim4", "vg", "cm", "st", "cw", "ct", "cnav", "fa", "rp", "qual", "cam", "moby", "sat",
         "ahd1", "cm_s", "cm_d">>
  ELSE IF dataSource = "upsell" THEN <<"vg", "cm">>
  ELSE IF dataSource = "fleet" THEN <<"vg", "cm", "st", "cw", "ct", "cnav", "rp", "aim4">>
  ELSE <<>>

\* String.prototype.split(','): the pieces of s between the commas
RECURSIVE split(_)
split(s) ==
  LET commas == {i \in 1..Len(s) : SubSeq(s, i, i) = ","}
  IN  IF commas = {} THEN <<s>>
      ELSE LET i == CHOOSE c \in commas : \A d \in commas : c <= d
           IN  <<SubSeq(s, 1, i - 1)>> \o split(SubSeq(s, i + 1, Len(s)))

\* list.map((x) => String(x).trim()).filter(Boolean)
trimmed(list) == SelectSeq([i \in 1..Len(list) |-> trim(list[i])], LAMBDA x : x # "")

\* mrrpv.js 87-92, resolveTimeWindows: the periods of a time window (a set of at most one
\* string), <<>> for null (the labels of the model hold no quote)
resolveTimeWindows(timeWindow) ==
  IF timeWindow = {} \/ timeWindow = {""} THEN <<>>
  ELSE trimmed(split(CHOOSE w \in timeWindow : TRUE))

(***************************************************************************)
(* agent/tools.js: executeTool, the tool boundary                          *)
(***************************************************************************)

\* tools.js 128-132 changed to hand on the first product only
includeProductFirstOnly(args) ==
  IF ~Has(args, "include_product") \/ Len(args.include_product) = 0 THEN {}
  ELSE LET t == trim(args.include_product[1])
           r == resolveProductArea(t)
       IN  {<<toLowerCase(IF r # {} THEN CHOOSE x \in r : TRUE ELSE t)>>}

\* tools.js 128-132: includeProduct, {} for undefined, else {the array of product keys}
includeProductOf(args) ==
  LET rawProducts == IF Has(args, "include_product") THEN args.include_product ELSE <<>>
      key(p) == LET t == trim(p)
                    r == resolveProductArea(t)
                IN  toLowerCase(IF r # {} THEN CHOOSE x \in r : TRUE ELSE t)
  IN  IF Len(rawProducts) = 0 THEN {}
      ELSE {SelectSeq([i \in 1..Len(rawProducts) |-> key(rawProducts[i])], LAMBDA x : x # "")}

\* tools.js 133-135: the source of the context if it is a registered one, else 'fleet'
dataSourceOf(context) ==
  IF /\ Has(context, "dataSource")
     /\ context.dataSource # ""
     /\ Contains(DATA_SOURCES, toLowerCase(context.dataSource))
  THEN toLowerCase(context.dataSource)
  ELSE "fleet"

\* tools.js 137-143 changed to take a list of any length, the empty one too
dimensionFilterAnyArray(args, include, exclude, scalar, fInclude, fExclude, fScalar) ==
  IF Has(args, include) THEN Put(EmptyObject, fInclude, trimmed(args[include]))
  ELSE IF Has(args, exclude) THEN Put(EmptyObject, fExclude, trimmed(args[exclude]))
  ELSE IF NonEmptyString(args, scalar) THEN Put(EmptyObject, fScalar, args[scalar])
  ELSE EmptyObject

\* tools.js 137-143 (144-150, 151-157): the filter of one dimension
dimensionFilter(args, include, exclude, scalar, fInclude, fExclude, fScalar) ==
  IF NonEmptyArray(args, include) THEN Put(EmptyObject, fInclude, trimmed(args[include]))
  ELSE IF NonEmptyArray(args, exclude) THEN Put(EmptyObject, fExclude, trimmed(args[exclude]))
  ELSE IF NonEmptyString(args, scalar) THEN Put(EmptyObject, fScalar, args[scalar])
  ELSE EmptyObject

\* tools.js 136-157: filters
filtersOf(args) ==
  Merge(Merge(
    dimensionFilter(args, "regions", "exclude_regions", "region",
                    "regions", "excludeRegions", "region"),
    dimensionFilter(args, "segments", "exclude_segments", "segment",
                    "segments", "excludeSegments", "segment")),
    dimensionFilter(args, "industries", "exclude_industries", "industry",
                    "industries", "excludeIndustries", "industry"))

\* tools.js 163-164
useBridge(args) ==
  \/ Has(args, "view_type") /\ args.view_type = "bridge"
  \/ Has(args, "preset_id") /\ args.preset_id = "first-purchase-bridge"

\* tools.js 165
useASP(args) ==
  \/ Has(args, "view_type") /\ args.view_type = "asp"
  \/ Has(args, "preset_id") /\ args.preset_id = "asp-investigation"

\* tools.js 126-135, 189: the parameters executeTool hands to getMRRpV (optional members
\* as sets of at most one value)
executeToolParams(args, context) ==
  [dataSource     |-> {dataSourceOf(context)},
   timeWindow     |-> IF Has(args, "time_window") /\ args.time_window # JsNull
                      THEN {args.time_window} ELSE {},
   groupBy        |-> IF Has(args, "group_by") /\ args.group_by # JsNull
                      THEN {args.group_by} ELSE {},
   filters        |-> filtersOf(args),
   includeProduct |-> includeProductOf(args)]

(***************************************************************************)
(* queries/mrrpv.js: getMRRpV, the query compiler                          *)
(***************************************************************************)

\* mrrpv.js 129-134: the longest entry a filter list keeps
MaxFilterEntryLength == 100

\* mrrpv.js 135-140: the most entries a filter list may hold
MaxFilterEntries == 50

\* mrrpv.js 120: the longest time window
MaxTimeWindowLength == 400

\* Array.prototype.join
RECURSIVE join(_, _)
join(list, sep) ==
  IF Len(list) = 0 THEN ""
  ELSE IF Len(list) = 1 THEN list[1]
  ELSE list[1] \o sep \o join(Tail(list), sep)

\* getMRRpV throws
Thrown(text) == [error |-> {text}, query |-> {}]

\* mrrpv.js 129-134: a filter list without its over-long entries, <<>> when there is none
listOf(filters, key) ==
  IF Has(filters, key)
  THEN SelectSeq(filters[key], LAMBDA g : Len(g) <= MaxFilterEntryLength)
  ELSE <<>>

\* mrrpv.js 112-113: the error for a product without a count column of the source
unsupportedProduct(dataSource, products) ==
  "Product \"" \o join(products, ",") \o "\" is not supported for " \o dataSource
    \o " (include filter). Allowed: "
    \o (IF Len(productKeys(dataSource)) > 0 THEN join(productKeys(dataSource), ", ")
        ELSE "none")

\* the count columns of the products of includeProduct (an array, as tools.js 129-132
\* builds it): every product must have a count column of the source
productCountCols(dataSource, includeProduct) ==
  IF includeProduct = {} THEN [error |-> {}, cols |-> <<>>]
  ELSE LET products  == CHOOSE p \in includeProduct : TRUE
           supported == DOMAIN PRODUCT_COUNT_COLUMNS[dataSource]
           unknown   == SelectSeq(products, LAMBDA p : p \notin supported)
       IN  IF Len(products) = 0 \/ Len(unknown) > 0
           THEN [error |-> {unsupportedProduct(dataSource, products)},
                 cols  |-> <<>>]
           ELSE [error |-> {},
                 cols  |-> [i \in 1..Len(products) |->
                              PRODUCT_COUNT_COLUMNS[dataSource][products[i]]]]

\* mrrpv.js 185-193 (194-202, 204-212): the predicate of one dimension, as a list of at
\* most one predicate
dimensionWhere(filters, col, include, exclude, scalar) ==
  IF Len(listOf(filters, include)) > 0
  THEN <<[col |-> col, op |-> "IN", values |-> listOf(filters, include)]>>
  ELSE IF Len(listOf(filters, exclude)) > 0
  THEN <<[col |-> col, op |-> "NOT IN", values |-> listOf(filters, exclude)]>>
  ELSE IF NonEmptyString(filters, scalar)
  THEN <<[col |-> col, op |-> "=", values |-> <<filters[scalar]>>]>>
  ELSE <<>>

\* mrrpv.js 178-184: the predicate of the time window
timeWhere(timeCol, periods) ==
  IF Len(periods) = 0 THEN <<>>
  ELSE IF Len(periods) = 1 THEN <<[col |-> timeCol, op |-> "=", values |-> periods]>>
  ELSE <<[col |-> timeCol, op |-> "IN", values |-> periods]>>

\* mrrpv.js 219-266 changed to group a grouped query by the dimension alone
groupColsWithoutTime(config, groupBy, periods) ==
  IF groupBy # {}
  THEN config.groupBySqlColumn[CHOOSE g \in groupBy : TRUE]
  ELSE IF Len(periods) > 0 THEN <<config.timeCol>>
  ELSE <<>>

\* mrrpv.js 219-266: the columns of GROUP BY; none stands for GROUP BY 1 over the
\* constant _grp
groupCols(config, groupBy, periods) ==
  IF groupBy # {}
  THEN config.groupBySqlColumn[CHOOSE g \in groupBy : TRUE] \o <<config.timeCol>>
  ELSE IF Len(periods) > 0 THEN <<config.timeCol>>
  ELSE <<>>

\* mrrpv.js 104-268: the statement getMRRpV compiles, or the error it throws
getMRRpV(p) ==
  LET given      == p.dataSource # {} /\ p.dataSource # {""}
      dataSource == IF given THEN toLowerCase(CHOOSE d \in p.dataSource : TRUE) ELSE "fleet"
  IN  IF dataSource \notin DOMAIN SOURCE_CONFIG \cup ObjectPrototypeKeys
      THEN Thrown("Invalid dataSource: " \o dataSource \o ". Allowed: "
                    \o join(DATA_SOURCES, ", "))
      ELSE IF dataSource \in ObjectPrototypeKeys
      THEN \* config is a member of Object.prototype: no product has a column (110-114),
           \* and config.allowedGroupBy is undefined (116)
           IF p.includeProduct # {}
           THEN Thrown(unsupportedProduct(dataSource, CHOOSE x \in p.includeProduct : TRUE))
           ELSE Thrown("config.allowedGroupBy is not iterable")
      ELSE
      LET config   == SOURCE_CONFIG[dataSource]
          periods  == resolveTimeWindows(p.timeWindow)
          products == productCountCols(dataSource, p.includeProduct)
          filters  == p.filters
          tooLong  == SelectSeq(<<"regions", "excludeRegions", "segments", "excludeSegments",
                                  "industries", "excludeIndustries">>,
                                LAMBDA k : Len(listOf(filters, k)) > MaxFilterEntries)
          geo      == dimensionWhere(filters, "geo", "regions", "excludeRegions", "region")
          segment  == dimensionWhere(filters, "segment", "segments", "excludeSegments",
                                     "segment")
          industry == IF Contains(config.allowedGroupBy, "industry")
                      THEN dimensionWhere(filters, "industry", "industries",
                                          "excludeIndustries", "industry")
                      ELSE <<>>
      IN  IF products.error # {}
          THEN Thrown(CHOOSE e \in products.error : TRUE)
          ELSE IF p.groupBy # {} /\ ~Contains(config.allowedGroupBy, CHOOSE g \in p.groupBy : TRUE)
          THEN Thrown("Invalid groupBy: " \o (CHOOSE g \in p.groupBy : TRUE) \o ". Allowed for "
                        \o dataSource \o ": " \o join(config.allowedGroupBy, ", "))
          ELSE IF p.timeWindow # {} /\ Len(CHOOSE w \in p.timeWindow : TRUE) > MaxTimeWindowLength
          THEN Thrown("timeWindow too long")
          ELSE IF Has(filters, "region") /\ Len(filters.region) > MaxFilterEntryLength
          THEN Thrown("region filter too long")
          ELSE IF Has(filters, "segment") /\ Len(filters.segment) > MaxFilterEntryLength
          THEN Thrown("segment filter too long")
          ELSE IF Len(tooLong) > 0
          THEN Thrown(tooLong[1] \o " filter too long")
          ELSE [error |-> {},
                query |-> {[source    |-> dataSource,
                            where     |-> timeWhere(config.timeCol, periods) \o geo \o segment
                                            \o industry
                                            \o [i \in 1..Len(products.cols) |->
                                                  [col |-> products.cols[i], op |-> "> 0",
                                                   values |-> <<>>]],
                            groupBy   |-> groupCols(config, p.groupBy, periods)]}]

(***************************************************************************)
(* The warehouse: what the compiled statement selects from the table       *)
(***************************************************************************)

\* the product whose count column in the table of source is col
productOfColumn(source, col) ==
  CHOOSE p \in DOMAIN PRODUCT_COUNT_COLUMNS[source] : PRODUCT_COUNT_COLUMNS[source][p] = col

\* the licenses of product p on a row (0 for a product without licenses)
licensesOf(row, p) == IF p \in DOMAIN row.licenses THEN row.licenses[p] ELSE 0

\* one predicate of WHERE on one row
holds(row, pred, source) ==
  IF pred.op = "=" THEN row[pred.col] = pred.values[1]
  ELSE IF pred.op = "IN" THEN Contains(pred.values, row[pred.col])
  ELSE IF pred.op = "NOT IN" THEN ~Contains(pred.values, row[pred.col])
  ELSE licensesOf(row, productOfColumn(source, pred.col)) > 0

\* the rows WHERE keeps
selected(q, tbl) == {r \in tbl : \A i \in 1..Len(q.where) : holds(r, q.where[i], q.source)}

\* SUM(countCol) over a set of rows
RECURSIVE sumCount(_)
sumCount(S) ==
  IF S = {} THEN 0
  ELSE LET r == CHOOSE x \in S : TRUE IN r.count + sumCount(S \ {r})

\* SUM(valueCol * countCol) over a set of rows
RECURSIVE sumValueCount(_)
sumValueCount(S) ==
  IF S = {} THEN 0
  ELSE LET r == CHOOSE x \in S : TRUE IN r.value * r.count + sumValueCount(S \ {r})

\* SUM(arrCol) over a set of rows
RECURSIVE sumValue(_)
sumValue(S) ==
  IF S = {} THEN 0
  ELSE LET r == CHOOSE x \in S : TRUE IN r.value + sumValue(S \ {r})

\* ROUND(n / d, 2) of amounts held in cents, for n >= 0 and d > 0
roundDiv(n, d) == (2 * n + d) \div (2 * d)

\* mrrpv.js 152-168 changed to divide the rate of every source by 12
mrrpvExprAlwaysMonthly(config, S) ==
  IF sumCount(S) = 0 THEN {}
  ELSE IF config.valueCol # {}
  THEN {roundDiv(sumValueCount(S), 12 * sumCount(S))}
  ELSE {roundDiv(sumValue(S), 12 * sumCount(S))}

\* mrrpv.js 152-168: mrrpvExpr over the rows of one group, in cents; {} for SQL NULL
mrrpvExpr(config, S) ==
  IF sumCount(S) = 0 THEN {}
  ELSE IF config.valueCol # {}
  THEN {roundDiv(sumValueCount(S), (IF config.annual THEN 12 ELSE 1) * sumCount(S))}
  ELSE {roundDiv(sumValue(S), (IF config.annual THEN 12 ELSE 1) * sumCount(S))}

\* the group of a row: its values in the GROUP BY columns
groupOf(q, r) == [i \in 1..Len(q.groupBy) |-> r[q.groupBy[i]]]

\* the rows the statement returns: one per group of the selected rows
resultRows(q, tbl) ==
  LET kept == selected(q, tbl)
  IN  { [group         |-> g,
         fleet_mrrpv   |-> mrrpvExpr(SOURCE_CONFIG[q.source], {r \in kept : groupOf(q, r) = g}),
         vehicle_count |-> sumCount({r \in kept : groupOf(q, r) = g})] :
        g \in {groupOf(q, r) : r \in kept} }

(***************************************************************************)
(* queries/mrrpv.js: the shape of the result                               *)
(***************************************************************************)

\* the grouping of the call: "dimension", "time" (overallUseTimeGroup) or "constant"
\* (overallUseConstantGroup), mrrpv.js 220-222
groupingMode(p) ==
  IF p.groupBy # {} /\ p.groupBy # {""} THEN "dimension"
  ELSE IF Len(resolveTimeWindows(p.timeWindow)) > 0 THEN "time"
  ELSE "constant"

\* mrrpv.js 271-275: expectedColNames (includeAcv is not false, no account count and no
\* average deal size are asked for; every source has an acvCol)
expectedColNames(p) ==
  LET timeCol == "close_quarter"
      g       == CHOOSE x \in p.groupBy : TRUE
  IN  IF groupingMode(p) = "dimension"
      THEN (IF g = "geo_segment" THEN <<"geo", "segment">> ELSE <<g>>)
             \o <<"fleet_mrrpv", "vehicle_count", "acv", timeCol>>
      ELSE IF groupingMode(p) = "time"
      THEN <<timeCol, "fleet_mrrpv", "vehicle_count", "acv">>
      ELSE <<"fleet_mrrpv", "vehicle_count", "acv", timeCol>>

\* mrrpv.js 224-258: the names of selectCols, the columns of the statement
selectCols(p) ==
  IF groupingMode(p) = "constant" THEN <<"_grp">> \o expectedColNames(p)
  ELSE expectedColNames(p)

\* a set as a list, in some order
RECURSIVE listOfSet(_)
listOfSet(S) ==
  IF S = {} THEN <<>>
  ELSE LET x == CHOOSE y \in S : TRUE IN <<x>> \o listOfSet(S \ {x})

\* the cells of the answer, row after row: a cell is the value of one column of the
\* statement in one row of the answer
cellsOf(p, answer) ==
  LET list == listOfSet(answer)
      n    == Len(selectCols(p))
  IN  [k \in 1..(n * Len(list)) |->
         [name |-> selectCols(p)[((k - 1) % n) + 1], of |-> list[((k - 1) \div n) + 1]]]

\* the slices of n cells of a flat list of cells (mrrpv.js 296-302, client.js 111-115)
slices(cells, n) == [j \in 1..(Len(cells) \div n) |-> SubSeq(cells, (j - 1) * n + 1, j * n)]

\* client.js 91-118, parseResult: the rows runSql returns, [flat, cells] with the cells
\* one after the other without column metadata, else [flat, rows] with rows of cells
rawRowsOf(p, names, answer) ==
  LET cells == cellsOf(p, answer)
  IN  IF Len(names) > 0 /\ Len(cells) > 0 /\ Len(cells) % Len(names) = 0
      THEN [flat |-> FALSE, rows |-> slices(cells, Len(names)), cells |-> <<>>]
      ELSE IF Len(cells) = 0
      THEN [flat |-> FALSE, rows |-> <<>>, cells |-> <<>>]
      ELSE [flat |-> TRUE, rows |-> <<>>, cells |-> cells]

\* Array.prototype.indexOf, from 1; 0 when absent
indexOf(list, x) ==
  IF \E i \in 1..Len(list) : list[i] = x
  THEN CHOOSE i \in 1..Len(list) : list[i] = x /\ \A j \in 1..(i - 1) : list[j] # x
  ELSE 0

\* mrrpv.js 279: rawColNames
rawColNamesOf(p, names) ==
  IF Len(names) > 0 THEN names
  ELSE IF groupingMode(p) = "constant" THEN <<"_grp">> \o expectedColNames(p)
  ELSE expectedColNames(p)

\* mrrpv.js 282-289: columns, by name
columnsOf(p, names) ==
  IF groupingMode(p) = "constant"
  THEN SelectSeq(rawColNamesOf(p, names), LAMBDA c : c # "_grp")
  ELSE rawColNamesOf(p, names)

\* mrrpv.js 291-303: rows
rowsOf(p, names, raw) ==
  LET rawColCount == Len(rawColNamesOf(p, names))
  IN  IF raw.flat
      THEN IF rawColCount > 0 /\ Len(raw.cells) > 0 /\ Len(raw.cells) % rawColCount = 0
           THEN slices(raw.cells, rawColCount)
           ELSE [j \in 1..Len(raw.cells) |-> <<raw.cells[j]>>]
      ELSE raw.rows

\* mrrpv.js 305-312: data, one object per row, its members read by the position of the
\* column's name in rawColNames
dataOf(p, names, outRows) ==
  LET cols == columnsOf(p, names)
      raws == rawColNamesOf(p, names)
  IN  [j \in 1..Len(outRows) |->
         [c \in {cols[i] : i \in 1..Len(cols)} |-> outRows[j][indexOf(raws, c)]]]

\* mrrpv.js 277-338: what getMRRpV returns for the answer of the warehouse
getMRRpVResult(p, names, answer) ==
  LET raw     == rawRowsOf(p, names, answer)
      outRows == rowsOf(p, names, raw)
  IN  [columns |-> columnsOf(p, names), rows |-> outRows, data |-> dataOf(p, names, outRows)]

\* an object of data as the values the Overall row reads of it: r.fleet_mrrpv and
\* r.vehicle_count, with the group of the row they come from
rowOfObject(obj) ==
  [group         |-> obj["fleet_mrrpv"].of.group,
   fleet_mrrpv   |-> obj["fleet_mrrpv"].of.fleet_mrrpv,
   vehicle_count |-> obj["vehicle_count"].of.vehicle_count]

(***************************************************************************)
(* queries/mrrpv.js: the Overall row                                       *)
(***************************************************************************)

\* the sum of (Number(r.fleet_mrrpv) || 0) * (Number(r.vehicle_count) || 0)
RECURSIVE sumMrrpvWeighted(_)
sumMrrpvWeighted(data) ==
  IF data = {} THEN 0
  ELSE LET r    == CHOOSE x \in data : TRUE
           rate == IF r.fleet_mrrpv = {} THEN 0 ELSE CHOOSE v \in r.fleet_mrrpv : TRUE
       IN  rate * r.vehicle_count + sumMrrpvWeighted(data \ {r})

\* the sum of Number(r.vehicle_count) || 0
RECURSIVE totalCount(_)
totalCount(data) ==
  IF data = {} THEN 0
  ELSE LET r == CHOOSE x \in data : TRUE IN r.vehicle_count + totalCount(data \ {r})

\* the sum of the rates of the rows
RECURSIVE sumMrrpv(_)
sumMrrpv(data) ==
  IF data = {} THEN 0
  ELSE LET r    == CHOOSE x \in data : TRUE
           rate == IF r.fleet_mrrpv = {} THEN 0 ELSE CHOOSE v \in r.fleet_mrrpv : TRUE
       IN  rate + sumMrrpv(data \ {r})

\* mrrpv.js 314-327 changed to average the rates of the rows
overallPlainAverage(data) ==
  IF Cardinality(data) > 1
  THEN {[fleet_mrrpv   |-> IF totalCount(data) > 0
                           THEN {roundDiv(sumMrrpv(data), Cardinality(data))} ELSE {},
         vehicle_count |-> {totalCount(data)}]}
  ELSE IF Cardinality(data) = 1
  THEN LET r == CHOOSE x \in data : TRUE
       IN  {[fleet_mrrpv |-> r.fleet_mrrpv, vehicle_count |-> {r.vehicle_count}]}
  ELSE {}

\* mrrpv.js 313-335: overall, {} for null (amounts in cents; Math.round(x * 100) / 100)
overallOf(data) ==
  IF Cardinality(data) > 1
  THEN {[fleet_mrrpv   |-> IF totalCount(data) > 0
                           THEN {roundDiv(sumMrrpvWeighted(data), totalCount(data))} ELSE {},
         vehicle_count |-> {totalCount(data)}]}
  ELSE IF Cardinality(data) = 1
  THEN LET r == CHOOSE x \in data : TRUE
       IN  {[fleet_mrrpv |-> r.fleet_mrrpv, vehicle_count |-> {r.vehicle_count}]}
  ELSE {}

(***************************************************************************)
(* Query specification: one invocation of executeTool, or one request to   *)
(* the query route, for every input of the sets below                      *)
(***************************************************************************)

\* the string of n copies of c
RECURSIVE repeat(_, _)
repeat(c, n) == IF n = 0 THEN "" ELSE c \o repeat(c, n - 1)

\* a filter entry one character longer than a list keeps
LongEntry == repeat("x", MaxFilterEntryLength + 1)

\* a filter list one entry longer than getMRRpV accepts
LongList == [i \in 1..(MaxFilterEntries + 1) |-> "R" \o ToString(i)]

\* the get_mrrpv arguments of the query specification: a grouping and a time window or
\* neither, with one combination of filters
QueryArgs ==
  { Merge(s, f) :
      s \in Objects([group_by    |-> {"geo", "industry", "geo_segment"},
                     time_window |-> {"FY26 Q4", "FY26 Q3,FY26 Q4"}]),
      f \in { EmptyObject,
              [regions |-> <<"US">>],
              [exclude_regions |-> <<"UK">>],
              [region |-> "US"],
              [regions |-> <<"US">>, exclude_regions |-> <<"US">>, region |-> "UK"],
              [exclude_regions |-> <<"UK">>, region |-> "UK"],
              [regions |-> <<LongEntry>>, exclude_regions |-> <<"UK">>],
              [regions |-> <<"US", LongEntry>>],
              [regions |-> LongList],
              [regions |-> <<" ">>, exclude_regions |-> <<"US">>],
              [industries |-> <<"Retail">>, exclude_industries |-> <<"Retail">>],
              [exclude_regions |-> <<>>],
              [regions |-> <<>>, exclude_regions |-> <<"UK">>],
              [exclude_segments |-> <<>>, segment |-> "MM"],
              [industries |-> <<>>, exclude_industries |-> <<"Retail">>],
              [include_product |-> <<"cm">>],
              [include_product |-> <<"Safety", " vg">>],
              [include_product |-> <<"cm", "flapps">>],
              [preset_id |-> "first-purchase-bridge"],
              [view_type |-> "asp"] } }

\* the context of the invocation: runAgent's dataSource, from the request
Contexts ==
  { EmptyObject, [dataSource |-> "fleet"], [dataSource |-> "first_purchase"],
    [dataSource |-> "upsell"], [dataSource |-> "sales"] }

\* the bodies of POST /api/query/mrrpv
RouteBodies ==
  { EmptyObject,
    [dataSource |-> "sales"],
    [dataSource |-> "constructor"],
    [groupBy |-> "industry"],
    [dataSource |-> "upsell", includeProduct |-> "st"],
    [dataSource |-> "upsell", includeProduct |-> "cm"],
    [dataSource |-> "first_purchase", groupBy |-> "industry"],
    [dataSource |-> "first_purchase",
     filters |-> [regions |-> <<"US">>, excludeRegions |-> <<"US">>, region |-> "UK"]],
    [filters |-> [regions |-> <<LongEntry>>, excludeRegions |-> <<"UK">>]],
    [filters |-> [excludeRegions |-> <<"UK", LongEntry>>], timeWindow |-> "FY26 Q4"],
    [filters |-> [segment |-> LongEntry]],
    [dataSource |-> "first_purchase", filters |-> [regions |-> <<>>, region |-> "US"]],
    [dataSource |-> "upsell", filters |-> [excludeIndustries |-> <<>>]] }

\* what runAgent is asked on an include/restore turn before it invokes the tool: the
\* proposals of the restore specification, and some whose exclude-list holds nothing but
\* what the user asks back (one of them with an empty include-list too)
ReconcileProposals ==
  RestoreProposals
  \cup { [regions |-> <<>>, exclude_segments |-> <<"MM">>],
         [exclude_regions |-> <<"CA">>, exclude_segments |-> <<"CML">>],
         [exclude_regions |-> <<"US - SLED", "US-SLED">>] }

\* rows of a source table: the dimensions, the period, the vehicle count, the amount in
\* cents (valueCol or arrCol), the license counts of the products
RowA == [geo |-> "US", segment |-> "MM", industry |-> "Retail", close_quarter |-> "FY26 Q4",
         count |-> 10, value |-> 5000, licenses |-> [cm |-> 2, vg |-> 0]]
RowB == [geo |-> "UK", segment |-> "MM", industry |-> "Retail", close_quarter |-> "FY26 Q4",
         count |-> 30, value |-> 7000, licenses |-> [cm |-> 1, vg |-> 3]]
RowC == [geo |-> "US", segment |-> "ENT - COR", industry |-> "Tech",
         close_quarter |-> "FY26 Q3",
         count |-> 20, value |-> 6100, licenses |-> [cm |-> 0, vg |-> 1]]
RowD == [geo |-> "CA", segment |-> "MM", industry |-> "Tech", close_quarter |-> "FY26 Q4",
         count |-> 0, value |-> 0, licenses |-> [cm |-> 1, vg |-> 1]]
RowE == [geo |-> "MX", segment |-> "MM", industry |-> "Retail", close_quarter |-> "FY25 Q1",
         count |-> 0, value |-> 0, licenses |-> [cm |-> 1, vg |-> 1]]

\* what the source table may hold
Tables == { {}, {RowA}, {RowA, RowB, RowC}, {RowA, RowB, RowC, RowD}, {RowD, RowE} }

\* a failure of executeTool (it throws; runAgent turns the throw into the tool output)
Failure(text) == [success |-> FALSE, error |-> {text}, data |-> {}, overall |-> {}]

\* tools.js 125-201: executeTool up to the call of the query function
ExecuteTool ==
  /\ qpc = "executeTool"
  /\ IF tool.name # "get_mrrpv"
     THEN /\ toolOut' = {Failure("Unknown tool: " \o tool.name)}
          /\ qpc' = "done"
          /\ UNCHANGED params
     ELSE IF useBridge(tool.args)
     THEN /\ qpc' = "getBridgeMRRpV"
          /\ UNCHANGED <<params, toolOut>>
     ELSE IF useASP(tool.args)
     THEN /\ qpc' = "getASPInvestigation"
          /\ UNCHANGED <<params, toolOut>>
     ELSE /\ params' = {executeToolParams(tool.args, tool.context)}
          /\ qpc' = "getMRRpV"
          /\ UNCHANGED toolOut
  /\ UNCHANGED <<tool, query, table, rows, rawColumns, result>>
  /\ UNCHANGED <<pc, clientVars, requestVars, conversationId, history, response, storeVars,
                 agentVars, agentOut, llmCalls, executed, sqlVars, trace>>

\* the query route, lines 17-23: the members of the body handed to getMRRpV (a product
\* is one key, held as a list of one)
routeParams(body) ==
  [dataSource     |-> IF Has(body, "dataSource") THEN {body.dataSource} ELSE {},
   timeWindow     |-> IF Has(body, "timeWindow") THEN {body.timeWindow} ELSE {},
   groupBy        |-> IF Has(body, "groupBy") THEN {body.groupBy} ELSE {},
   filters        |-> IF Has(body, "filters") THEN body.filters ELSE EmptyObject,
   includeProduct |-> IF Has(body, "includeProduct") THEN {<<body.includeProduct>>} ELSE {}]

\* runAgent, lines 379-395: the corrections of the proposed arguments before the tool
\* is invoked
\* tc.function.arguments as the language model may write it: JSON texts of an object,
\* a text cut short, a text in single quotes, and the empty string
ArgumentTexts ==
  { "{}", "{\"exclude_regions\":[\"CA\"]}", "{\"exclude_regions\":[\"CA\"]",
    "{'exclude_segments': ['MM']}", "" }

\* the texts of ArgumentTexts JSON.parse accepts
IsJson(text) == text \in {"{}", "{\"exclude_regions\":[\"CA\"]}"}

\* JSON.parse of the texts it accepts
JSONparse(text) ==
  CASE text = "{}" -> EmptyObject
    [] text = "{\"exclude_regions\":[\"CA\"]}" -> [exclude_regions |-> <<"CA">>]

\* view-lock.js 376-380: args is {}; a non-empty arguments text is parsed into it, and
\* what JSON.parse throws is caught and dropped
parsedArguments(tc) ==
  IF tc.arguments # "" /\ IsJson(tc.arguments) THEN JSONparse(tc.arguments) ELSE EmptyObject

\* view-lock.js 374-380: the arguments of the tool call at hand are parsed
ParseArguments ==
  /\ qpc = "parse"
  /\ toolCalls' = [toolCalls EXCEPT ![idx] =
                     [name |-> @.name, arguments |-> @.arguments, args |-> parsedArguments(@)]]
  /\ qpc' = "reconcile"
  /\ UNCHANGED <<tool, params, query, table, rows, rawColumns, result, toolOut>>
  /\ UNCHANGED <<pc, clientVars, requestVars, conversationId, history, response, storeVars,
                 idx, lastResultCalls, toolResults, lastResult, lastToolError,
                 agentOut, llmCalls, executed, sqlVars, trace>>

ReconcileArgs ==
  /\ qpc = "reconcile"
  /\ tool' = [tool EXCEPT !.args = effectiveArgs(toolCalls[idx])]
  /\ qpc' = "executeTool"
  /\ UNCHANGED <<params, query, table, rows, rawColumns, result, toolOut>>
  /\ UNCHANGED <<pc, clientVars, requestVars, conversationId, history, response, storeVars,
                 agentVars, agentOut, llmCalls, executed, sqlVars, trace>>

\* the query route, lines 14-23
QueryRoute ==
  /\ qpc = "route"
  /\ params' = {routeParams(tool.args)}
  /\ qpc' = "getMRRpV"
  /\ UNCHANGED <<tool, query, table, rows, rawColumns, result, toolOut>>
  /\ UNCHANGED <<pc, clientVars, requestVars, conversationId, history, response, storeVars,
                 agentVars, agentOut, llmCalls, executed, sqlVars, trace>>

\* mrrpv.js 104-268: getMRRpV validates the parameters and compiles the statement
GetMRRpV ==
  /\ qpc = "getMRRpV"
  /\ LET r == getMRRpV(CHOOSE p \in params : TRUE)
     IN  IF r.error # {}
         THEN /\ toolOut' = {Failure(CHOOSE e \in r.error : TRUE)}
              /\ qpc' = "done"
              /\ UNCHANGED query
         ELSE /\ query' = r.query
              /\ qpc' = "runSql"
              /\ UNCHANGED toolOut
  /\ UNCHANGED <<tool, params, table, rows, rawColumns, result>>
  /\ UNCHANGED <<pc, clientVars, requestVars, conversationId, history, response, storeVars,
                 agentVars, agentOut, llmCalls, executed, sqlVars, trace>>

\* mrrpv.js 276: runSql returns the rows of the statement
RunSqlReturns ==
  /\ qpc = "runSql"
  /\ rows' = resultRows(CHOOSE q \in query : TRUE, table)
  /\ \E metadata \in BOOLEAN :
       rawColumns' = IF metadata THEN selectCols(CHOOSE p \in params : TRUE) ELSE <<>>
  /\ qpc' = "shape"
  /\ UNCHANGED <<tool, params, query, table, result, toolOut>>
  /\ UNCHANGED <<pc, clientVars, requestVars, conversationId, history, response, storeVars,
                 agentVars, agentOut, llmCalls, executed, sqlVars, trace>>

\* mrrpv.js 276: runSql throws (the warehouse failed the statement, or it timed out)
RunSqlThrows ==
  /\ qpc = "runSql"
  /\ \E text \in {"Databricks statement failed", "Statement execution timed out"} :
       toolOut' = {Failure(text)}
  /\ qpc' = "done"
  /\ UNCHANGED <<tool, params, query, table, rows, rawColumns, result>>
  /\ UNCHANGED <<pc, clientVars, requestVars, conversationId, history, response, storeVars,
                 agentVars, agentOut, llmCalls, executed, sqlVars, trace>>

\* mrrpv.js 278-337 changed to treat an answer without rows as a failure
ShapeResultThrowsOnEmpty ==
  /\ qpc = "shape"
  /\ LET r    == getMRRpVResult(CHOOSE p \in params : TRUE, rawColumns, rows)
         data == {rowOfObject(r.data[j]) : j \in 1..Len(r.data)}
     IN  IF Len(r.rows) = 0
         THEN /\ toolOut' = {Failure("No data")}
              /\ UNCHANGED result
         ELSE /\ result' = {r}
              /\ toolOut' = {[success |-> TRUE, error |-> {}, data |-> data,
                              overall |-> overallOf(data)]}
  /\ qpc' = "done"
  /\ UNCHANGED <<tool, params, query, table, rows, rawColumns>>
  /\ UNCHANGED <<pc, clientVars, requestVars, conversationId, history, response, storeVars,
                 agentVars, agentOut, llmCalls, executed, sqlVars, trace>>

\* mrrpv.js 278-337, tools.js 190-196: the data, the Overall row, the result returned
ShapeResult ==
  /\ qpc = "shape"
  /\ LET r    == getMRRpVResult(CHOOSE p \in params : TRUE, rawColumns, rows)
         data == {rowOfObject(r.data[j]) : j \in 1..Len(r.data)}
     IN  /\ result' = {r}
         /\ toolOut' = {[success |-> TRUE, error |-> {}, data |-> data,
                         overall |-> overallOf(data)]}
  /\ qpc' = "done"
  /\ UNCHANGED <<tool, params, query, table, rows, rawColumns>>
  /\ UNCHANGED <<pc, clientVars, requestVars, conversationId, history, response, storeVars,
                 agentVars, agentOut, llmCalls, executed, sqlVars, trace>>

InitQuery ==
  /\ pc = "idle"
  /\ querySummary = {}
  /\ selectedViewId = ""
  /\ clientConvId = {}
  /\ conversationId = ""
  /\ response = NoResponse
  /\ conversations = EmptyObject
  /\ RateLimitOff
  /\ remoteAddress = "anon"
  /\ turns = <<>>
  /\ idx = 1
  /\ lastResultCalls = <<>>
  /\ toolResults = <<>>
  /\ lastResult = {}
  /\ lastToolError = {}
  /\ agentOut = {}
  /\ llmCalls = 0
  /\ executed = <<>>
  /\ \/ /\ qpc = "executeTool"
        /\ tool \in {[name |-> "get_mrrpv", args |-> a, context |-> c] :
                       a \in QueryArgs, c \in Contexts}
                    \cup {[name |-> "run_sql", args |-> EmptyObject, context |-> EmptyObject]}
        /\ message = "" /\ currentView = {} /\ history = 0 /\ heap = <<>> /\ toolCalls = <<>>
     \/ /\ qpc = "route"
        /\ tool \in {[name |-> "POST /api/query/mrrpv", args |-> b, context |-> EmptyObject] :
                       b \in RouteBodies}
        /\ message = "" /\ currentView = {} /\ history = 0 /\ heap = <<>> /\ toolCalls = <<>>
     \/ /\ qpc = "reconcile"
        /\ message \in RestoreUtterances
        /\ currentView \in {{cv} : cv \in RestoreViews}
        /\ history = 1
        /\ heap = <<  <<[role |-> "user", content |-> trim(message)]>>  >>
        /\ toolCalls \in {<<[name |-> "get_mrrpv", args |-> a]>> : a \in ReconcileProposals}
        /\ tool = [name |-> "get_mrrpv", args |-> toolCalls[1].args,
                   context |-> [dataSource |-> "first_purchase"]]
     \/ /\ qpc = "parse"
        /\ message \in RestoreUtterances
        /\ currentView \in {{}} \cup {{cv} : cv \in RestoreViews}
        /\ history = 1
        /\ heap = <<  <<[role |-> "user", content |-> trim(message)]>>  >>
        /\ toolCalls \in {<<[name |-> "get_mrrpv", arguments |-> a]>> : a \in ArgumentTexts}
        /\ tool = [name |-> "get_mrrpv", args |-> EmptyObject,
                   context |-> [dataSource |-> "first_purchase"]]
  /\ params = {}
  /\ query = {}
  /\ table \in Tables
  /\ rows = {}
  /\ rawColumns = <<>>
  /\ result = {}
  /\ toolOut = {}
  /\ SqlIdle
  /\ trace = <<>>

NextQuery ==
  \/ ParseArguments
  \/ ReconcileArgs
  \/ ExecuteTool
  \/ QueryRoute
  \/ GetMRRpV
  \/ RunSqlReturns
  \/ RunSqlThrows
  \/ ShapeResult

SpecQuery == InitQuery /\ [][NextQuery]_vars

(***************************************************************************)
(* Properties of the query pipeline (specification SpecQuery)              *)
(***************************************************************************)

FilterListKeys ==
  {"regions", "excludeRegions", "segments", "excludeSegments", "industries",
   "excludeIndustries"}

\* the parameters getMRRpV was called with
TheParams == CHOOSE p \in params : TRUE

\* the statement getMRRpV compiled
TheQuery == CHOOSE q \in query : TRUE

\* getMRRpV has run
Compiled == params # {} /\ qpc \in {"runSql", "shape", "done"}

\* a filter list of the parameters holds an entry that is too long, or too many entries
OversizedList(k) ==
  /\ Has(TheParams.filters, k)
  /\ \/ Len(TheParams.filters[k]) > MaxFilterEntries
     \/ \E i \in 1..Len(TheParams.filters[k]) :
          Len(TheParams.filters[k][i]) > MaxFilterEntryLength

\* C11: a filter list with an entry longer than 100 characters, or with more than 50
\* entries, is rejected: getMRRpV compiles no statement for it, so no entry of a list is
\* silently dropped.
C11_OversizedFilterListIsRejected ==
  (Compiled /\ \E k \in FilterListKeys : OversizedList(k)) => query = {}

\* the data source the caller named: the context of the tool invocation, or the body of
\* the request to the query route
NamedSource ==
  IF tool.name = "get_mrrpv"
  THEN (IF Has(tool.context, "dataSource") THEN {tool.context.dataSource} ELSE {})
  ELSE (IF Has(tool.args, "dataSource") THEN {tool.args.dataSource} ELSE {})

\* C12: an invocation that names a data source other than fleet, first_purchase and
\* upsell is rejected: no statement is compiled for it, against no source.
C12_UnknownSourceIsRejected ==
  (\E s \in NamedSource : ~Contains(DATA_SOURCES, toLowerCase(s))) => query = {}

\* the product keys a tool call asks for
RequestedProducts ==
  IF Has(tool.args, "include_product")
  THEN {toLowerCase(LET r == resolveProductArea(trim(tool.args.include_product[i]))
                    IN  IF r # {} THEN CHOOSE x \in r : TRUE
                        ELSE trim(tool.args.include_product[i])) :
          i \in 1..Len(tool.args.include_product)}
  ELSE {}

\* the statement without its product predicates
WithoutProducts(q) == [q EXCEPT !.where = SelectSeq(@, LAMBDA w : w.op # "> 0")]

\* a tool call asks for products, all of them with a count column of the source
SupportedProductsCall ==
  /\ tool.name = "get_mrrpv"
  /\ Compiled
  /\ RequestedProducts # {}
  /\ \A s \in TheParams.dataSource :
       RequestedProducts \subseteq DOMAIN PRODUCT_COUNT_COLUMNS[s]

AskedGroupBy == TheParams.groupBy
AskedPeriods == resolveTimeWindows(TheParams.timeWindow)

\* the pair (group value, period) of a source row under the grouping dimension asked for
GroupAndPeriod(r) ==
  LET g == CHOOSE x \in AskedGroupBy : TRUE
  IN  IF g = "geo_segment" THEN <<r.geo, r.segment, r.close_quarter>>
      ELSE <<r[g], r.close_quarter>>

\* the statement ran
Answered == Compiled /\ query # {} /\ qpc \in {"shape", "done"} /\ \A o \in toolOut : o.success

TheResult == CHOOSE o \in toolOut : TRUE

\* the plain average of the row rates, in cents
PlainAverage(data) == roundDiv(sumMrrpv(data), Cardinality(data))

\* C15: for a result of two or more rows, Overall.fleet_mrrpv is
\* round(sum(rate_i * weight_i) / sum(weight_i), 2) (null when every weight is 0), rate_i
\* and weight_i the MRRpV and the vehicle count of row i.
C15_OverallIsWeightedAverage ==
  (qpc = "done" /\ toolOut # {} /\ TheResult.success /\ Cardinality(TheResult.data) >= 2) =>
    \A o \in TheResult.overall :
      o.fleet_mrrpv =
        IF totalCount(TheResult.data) > 0
        THEN {(2 * sumMrrpvWeighted(TheResult.data) + totalCount(TheResult.data))
                \div (2 * totalCount(TheResult.data))}
        ELSE {}

\* a result of two or more rows whose weighted average is not the plain average
C15_Witness ==
  /\ qpc = "done" /\ toolOut # {} /\ TheResult.success
  /\ Cardinality(TheResult.data) >= 2
  /\ TheResult.overall # {}
  /\ \A o \in TheResult.overall : o.fleet_mrrpv # {PlainAverage(TheResult.data)}
                                  /\ o.fleet_mrrpv # {}

\* the predicates of the statement on a column
PredicatesOn(col) == SelectSeq(TheQuery.where, LAMBDA w : w.col = col)

\* the one predicate the precedence rule asks for on col, given which of include-list,
\* exclude-list and scalar are supplied (non-empty)
PrecedenceHolds(col, hasInclude, hasExclude, hasScalar) ==
  (Cardinality({x \in {<<1, hasInclude>>, <<2, hasExclude>>, <<3, hasScalar>>} : x[2]}) >= 2) =>
    /\ Len(PredicatesOn(col)) = 1
    /\ PredicatesOn(col)[1].op =
         IF hasInclude THEN "IN" ELSE IF hasExclude THEN "NOT IN" ELSE "="

\* C16: when more than one of include-list, exclude-list and scalar is supplied for a
\* dimension, the statement holds exactly one predicate for it: the include-list if it is
\* non-empty, else the exclude-list if it is non-empty, else the scalar; for the arguments
\* of a tool call and for the filters handed to getMRRpV.
C16_FilterPrecedence ==
  (Compiled /\ query # {}) =>
    /\ tool.name = "get_mrrpv" =>
         /\ PrecedenceHolds("geo", NonEmptyArray(tool.args, "regions"),
                            NonEmptyArray(tool.args, "exclude_regions"),
                            NonEmptyString(tool.args, "region"))
         /\ PrecedenceHolds("segment", NonEmptyArray(tool.args, "segments"),
                            NonEmptyArray(tool.args, "exclude_segments"),
                            NonEmptyString(tool.args, "segment"))
         /\ PrecedenceHolds("industry", NonEmptyArray(tool.args, "industries"),
                            NonEmptyArray(tool.args, "exclude_industries"),
                            NonEmptyString(tool.args, "industry"))
    /\ PrecedenceHolds("geo", NonEmptyArray(TheParams.filters, "regions"),
                       NonEmptyArray(TheParams.filters, "excludeRegions"),
                       NonEmptyString(TheParams.filters, "region"))
    /\ PrecedenceHolds("segment", NonEmptyArray(TheParams.filters, "segments"),
                       NonEmptyArray(TheParams.filters, "excludeSegments"),
                       NonEmptyString(TheParams.filters, "segment"))
    /\ PrecedenceHolds("industry", NonEmptyArray(TheParams.filters, "industries"),
                       NonEmptyArray(TheParams.filters, "excludeIndustries"),
                       NonEmptyString(TheParams.filters, "industry"))

(***************************************************************************)
(* Turn specification: one call of runAgent, from the first call of the    *)
(* language model to the return or the throw                               *)
(***************************************************************************)

\* the currentView of the request: none, or a preset view with a region excluded
LoopViews ==
  { {},
    {[presetId |-> "first-purchase-overall", time_window |-> DEFAULT_FOUR_QUARTERS,
      exclude_regions |-> <<"US">>]} }

InitLoop ==
  /\ pc = "llm1"
  /\ querySummary = {}
  /\ selectedViewId = ""
  /\ clientConvId = {}
  /\ message \in ChatUtterances
  /\ currentView \in LoopViews
  /\ conversationId = "conv-1"
  /\ history = 1
  /\ response = NoResponse
  /\ conversations = EmptyObject
  /\ RateLimitOff
  /\ remoteAddress = "anon"
  /\ turns = <<>>
  /\ heap = <<  <<[role |-> "user", content |-> trim(message)]>>  >>
  /\ toolCalls = <<>>
  /\ idx = 1
  /\ lastResultCalls = <<>>
  /\ toolResults = <<>>
  /\ lastResult = {}
  /\ lastToolError = {}
  /\ agentOut = {}
  /\ llmCalls = 0
  /\ executed = <<>>
  /\ QueryIdle
  /\ SqlIdle
  /\ trace = <<>>

NextLoop ==
  \/ FirstReply
  \/ ToolStep
  \/ FollowUp
  \/ LanguageModelFails

SpecLoop == InitLoop /\ [][NextLoop]_vars

(***************************************************************************)
(* Properties of the turn (specification SpecLoop)                         *)
(***************************************************************************)

\* the ids 1..n in order
InOrder(n) == [i \in 1..n |-> i]

\* the ids of the tool outputs collected so far
OutputIds == [i \in 1..Len(toolResults) |-> toolResults[i].tool_call_id]

\* C17: a turn calls the language model at most twice. A first reply without tool calls
\* is returned after that one call, with no tool executed and no result. Otherwise every
\* tool call is executed once, in the order emitted, one tool output with the call's id is
\* collected per call in that order, and the one follow-up call comes after all of them.
C17_TwoCallsOneOutputPerToolCall ==
  /\ llmCalls <= 2
  /\ executed = InOrder(Len(executed))
  /\ OutputIds = executed
  /\ llmCalls = 2 => (Len(toolCalls) > 0 /\ executed = InOrder(Len(toolCalls)))
  /\ pc = "finish" =>
       IF Len(toolCalls) = 0
       THEN llmCalls = 1 /\ executed = <<>> /\ \A o \in agentOut : o.lastResult = {}
       ELSE llmCalls = 2 /\ executed = InOrder(Len(toolCalls))

\* a turn with two tool calls has returned
C17_Witness ==
  pc = "finish" /\ Len(toolCalls) = 2 /\ llmCalls = 2 /\ OutputIds = <<1, 2>>

\* the tool calls that failed so far
FailedCalls == {i \in 1..Len(toolResults) : ~toolResults[i].success}

\* C18: a failing tool call neither aborts the turn nor is retried: its output is collected
\* as a failure under the call's id, the remaining calls are executed, and the follow-up
\* call of the language model is made (the turn throws only if that call throws).
C18_ToolFailureIsReportedNotFatal ==
  /\ Len(toolResults) = Len(executed)
  /\ \A i \in 1..Len(executed) : executed[i] = i /\ toolResults[i].tool_call_id = i
  /\ \A i \in 1..Len(toolResults) :
       toolCalls[i].name # "get_mrrpv" => ~toolResults[i].success
  /\ (FailedCalls # {} /\ pc \in {"llm2", "finish", "error"}) =>
       Len(executed) = Len(toolCalls)
  /\ (FailedCalls # {} /\ pc \in {"finish", "error"}) => llmCalls = 2

\* the first of two tool calls failed, the second one ran, and the turn has returned
C18_Witness ==
  /\ pc = "finish"
  /\ Len(toolCalls) = 2
  /\ FailedCalls = {1}
  /\ toolResults[2].success
  /\ llmCalls = 2

(***************************************************************************)
(* The Databricks client: runSql. Time is counted in seconds; it passes    *)
(* only while runSql awaits a fetch or the poll timer                      *)
(***************************************************************************)

\* how far the clock of the model runs
MaxClock == 6

\* the values of the parameter timeoutMs, in seconds
SqlTimeouts == {2, 3}

\* what a request to the statement API may come back with: the fetch rejects, the HTTP
\* status is an error, or the statement is in one of the states of the API
Answers == {"rejected", "not ok", "FAILED", "SUCCEEDED", "CLOSED", "PENDING", "RUNNING",
            "CANCELED"}

\* lines 59-88: what runSql does with the answer to a request
afterAnswer(answer) ==
  IF answer = "rejected" THEN [pc |-> "done", out |-> {[threw |-> "fetch failed"]}]
  ELSE IF answer = "not ok" THEN [pc |-> "done", out |-> {[threw |-> "Databricks API error"]}]
  ELSE IF answer = "FAILED" THEN [pc |-> "done", out |-> {[threw |-> "Statement failed"]}]
  ELSE IF answer \in {"SUCCEEDED", "CLOSED"} THEN [pc |-> "done", out |-> {[returned |-> "result"]}]
  ELSE [pc |-> "while", out |-> {}]

\* time passes while runSql awaits: a fetch for as long as the warehouse takes, the
\* timer until it is due
Tick ==
  /\ sqlPc \in {"post", "sleep", "get"}
  /\ sqlPc = "sleep" => clock < wakeAt
  /\ clock < MaxClock
  /\ clock' = clock + 1
  /\ UNCHANGED <<sqlPc, timeoutMs, start, wakeAt, sqlOut>>
  /\ UNCHANGED <<pc, clientVars, requestVars, conversationId, history, response, storeVars,
                 agentVars, agentOut, llmCalls, executed, queryVars, trace>>

\* lines 46-88: the POST of the statement is answered
PostAnswered ==
  /\ sqlPc = "post"
  /\ \E answer \in Answers :
       /\ sqlPc' = afterAnswer(answer).pc
       /\ sqlOut' = afterAnswer(answer).out
  /\ UNCHANGED <<clock, timeoutMs, start, wakeAt>>
  /\ UNCHANGED <<pc, clientVars, requestVars, conversationId, history, response, storeVars,
                 agentVars, agentOut, llmCalls, executed, queryVars, trace>>

\* lines 71-72, 86: the test of the while loop; the timer set, or the timeout thrown
WhileTest ==
  /\ sqlPc = "while"
  /\ IF clock - start < timeoutMs
     THEN /\ sqlPc' = "sleep"
          /\ wakeAt' = clock + 1
          /\ UNCHANGED sqlOut
     ELSE /\ sqlPc' = "done"
          /\ sqlOut' = {[threw |-> "Statement execution timed out"]}
          /\ UNCHANGED wakeAt
  /\ UNCHANGED <<clock, timeoutMs, start>>
  /\ UNCHANGED <<pc, clientVars, requestVars, conversationId, history, response, storeVars,
                 agentVars, agentOut, llmCalls, executed, queryVars, trace>>

\* lines 72-75: the timer fires and the GET of the statement is sent
TimerFires ==
  /\ sqlPc = "sleep"
  /\ clock >= wakeAt
  /\ sqlPc' = "get"
  /\ UNCHANGED <<clock, timeoutMs, start, wakeAt, sqlOut>>
  /\ UNCHANGED <<pc, clientVars, requestVars, conversationId, history, response, storeVars,
                 agentVars, agentOut, llmCalls, executed, queryVars, trace>>

\* lines 73-85: the GET of the statement is answered
GetAnswered ==
  /\ sqlPc = "get"
  /\ \E answer \in Answers :
       /\ sqlPc' = afterAnswer(answer).pc
       /\ sqlOut' = afterAnswer(answer).out
  /\ UNCHANGED <<clock, timeoutMs, start, wakeAt>>
  /\ UNCHANGED <<pc, clientVars, requestVars, conversationId, history, response, storeVars,
                 agentVars, agentOut, llmCalls, executed, queryVars, trace>>

\* line 42: runSql has read the clock and sent the POST
InitSql ==
  /\ pc = "idle"
  /\ querySummary = {}
  /\ selectedViewId = ""
  /\ clientConvId = {}
  /\ message = ""
  /\ currentView = {}
  /\ conversationId = ""
  /\ history = 0
  /\ response = NoResponse
  /\ conversations = EmptyObject
  /\ RateLimitOff
  /\ remoteAddress = "anon"
  /\ turns = <<>>
  /\ heap = <<>>
  /\ toolCalls = <<>>
  /\ idx = 1
  /\ lastResultCalls = <<>>
  /\ toolResults = <<>>
  /\ lastResult = {}
  /\ lastToolError = {}
  /\ agentOut = {}
  /\ llmCalls = 0
  /\ executed = <<>>
  /\ QueryIdle
  /\ sqlPc = "post"
  /\ clock \in {0, 1}
  /\ timeoutMs \in SqlTimeouts
  /\ start = clock
  /\ wakeAt = 0
  /\ sqlOut = {}
  /\ trace = <<>>

NextSql ==
  \/ Tick
  \/ PostAnswered
  \/ WhileTest
  \/ TimerFires
  \/ GetAnswered

SpecSql == InitSql /\ [][NextSql]_vars

(***************************************************************************)
(* Properties of runSql (specification SpecSql)                            *)
(***************************************************************************)

\* runSql is under way
Running == sqlPc \in {"post", "while", "sleep", "get"}

\* C19: whatever the warehouse does, runSql ends within the timeout: it is never still
\* under way later than timeoutMs after its start.
C19_RunSqlEndsWithinTimeout == Running => clock - start <= timeoutMs

(***************************************************************************)
(* Restore specification: one get_mrrpv tool call on an include/restore    *)
(* utterance, for every utterance, current view and proposal below         *)
(***************************************************************************)

InitRestore ==
  /\ pc = "tools"
  /\ querySummary = {}
  /\ selectedViewId = ""
  /\ clientConvId = {}
  /\ message \in RestoreUtterances
  /\ currentView \in {{cv} : cv \in RestoreViews}
  /\ conversationId = "conv-1"
  /\ history = 1
  /\ response = NoResponse
  /\ conversations = EmptyObject
  /\ RateLimitOff
  /\ remoteAddress = "anon"
  /\ turns = <<>>
  /\ heap = <<  <<[role |-> "user", content |-> trim(message)]>>  >>
  /\ toolCalls \in {<<[name |-> "get_mrrpv", args |-> a]>> : a \in RestoreProposals}
  /\ idx = 1
  /\ lastResultCalls = <<>>
  /\ toolResults = <<>>
  /\ lastResult = {}
  /\ lastToolError = {}
  /\ agentOut = {}
  /\ llmCalls = 1
  /\ executed = <<>>
  /\ QueryIdle
  /\ SqlIdle
  /\ trace = <<>>

NextRestore == ToolStep

SpecRestore == InitRestore /\ [][NextRestore]_vars

(***************************************************************************)
(* Properties of include/restore (specification SpecRestore)               *)
(***************************************************************************)

\* phrase p stands in s as words of its own
NamesPhrase(s, p) == Wb(s, Lit(s, Wb(s, Anywhere(s)), p)) # {}

\* the table values of the phrases an utterance names
NamedValues(phrases, m) ==
  UNION {e[2] : e \in {x \in phrases : NamesPhrase(toLowerCase(m), x[1])}}

\* the values of list key k that the proposal excluded and the executed arguments do not
Removed(k) == ListOf(Proposed, k) \ ListOf(Effective, k)

\* C20: on an include/restore utterance, the values removed from an exclude-list are the
\* table values of the phrases the utterance names, in every spelling, and no other
\* excluded value is removed.
C20_RestoreRemovesNamedValuesOnly ==
  (Reconciled /\ isIncludeRestoreIntent(lastUserMessage)) =>
    /\ Removed("exclude_regions") =
         ListOf(Proposed, "exclude_regions") \cap NamedValues(PHRASE_TO_REGIONS, lastUserMessage)
    /\ Removed("exclude_segments") =
         ListOf(Proposed, "exclude_segments") \cap NamedValues(PHRASE_TO_SEGMENTS, lastUserMessage)

(***************************************************************************)
(* Rejections of the query compiler (specification SpecQuery)              *)
(***************************************************************************)

\* the source getMRRpV works on: the one it was given, in lower case, or fleet
SourceAsked ==
  IF TheParams.dataSource # {} /\ TheParams.dataSource # {""}
  THEN toLowerCase(CHOOSE d \in TheParams.dataSource : TRUE)
  ELSE "fleet"

\* the parameters of the call that name something the source does not have
Offending ==
  {k \in {"dataSource"} : ~Contains(DATA_SOURCES, SourceAsked)}
  \cup {k \in {"groupBy"} :
          /\ Contains(DATA_SOURCES, SourceAsked)
          /\ TheParams.groupBy # {}
          /\ ~Contains(SOURCE_CONFIG[SourceAsked].allowedGroupBy,
                       CHOOSE g \in TheParams.groupBy : TRUE)}
  \cup {k \in {"includeProduct"} :
          /\ Contains(DATA_SOURCES, SourceAsked)
          /\ TheParams.includeProduct # {}
          /\ \E i \in 1..Len(CHOOSE x \in TheParams.includeProduct : TRUE) :
               ~Contains(productKeys(SourceAsked),
                         (CHOOSE x \in TheParams.includeProduct : TRUE)[i])}

\* the values a parameter may take
AllowedValues(k) ==
  IF k = "dataSource" THEN DATA_SOURCES
  ELSE IF k = "groupBy" THEN SOURCE_CONFIG[SourceAsked].allowedGroupBy
  ELSE productKeys(SourceAsked)

\* the text names every value of the list
Enumerates(text, list) == \A i \in 1..Len(list) : includes(text, list[i])

\* C21: a call of the query compiler with a grouping the source does not allow, an
\* unknown source key, or a product without a count column of the source, runs no
\* statement and fails with a message that lists the allowed values of such a parameter
C21_RejectionEnumeratesAllowedValues ==
  (Compiled /\ Offending # {}) =>
    /\ query = {}
    /\ qpc = "done"
    /\ \E out \in toolOut :
         /\ ~out.success
         /\ \E e \in out.error, k \in Offending : Enumerates(e, AllowedValues(k))

(***************************************************************************)
(* The shape of the result (specification SpecQuery)                       *)
(***************************************************************************)

\* C22: when the warehouse answers a statement with no rows, with or without column
\* metadata and in every grouping, the call succeeds with an empty list of rows, no
\* data and Overall = null
C22_EmptyAnswerIsEmptyResult ==
  [][(qpc = "shape" /\ rows = {}) =>
       /\ qpc' = "done"
       /\ \E out \in toolOut' : out.success /\ out.data = {} /\ out.overall = {}
       /\ \E r \in result' : r.rows = <<>> /\ r.data = <<>>]_vars

\* a statement over the constant group was answered with no rows and no metadata, and
\* the call has returned
C22_Witness ==
  /\ qpc = "done"
  /\ result # {}
  /\ rows = {}
  /\ rawColumns = <<>>
  /\ groupingMode(TheParams) = "constant"
  /\ \E out \in toolOut : out.success /\ out.overall = {}

\* r is n / d rounded to the nearest unit, for d > 0
IsRounded(r, n, d) == 2 * (r * d - n) <= d /\ 2 * (n - r * d) <= d

\* the source rows behind a row of the answer
SourceRowsOf(r) == {s \in selected(TheQuery, table) : groupOf(TheQuery, s) = r.group}

\* C23: the rate of a row of the answer is null when the vehicle counts of its source
\* rows add up to 0; otherwise, rounded to the cent, it is sum(metric * count) / sum(count)
\* for first_purchase (no division by 12) and (sum(revenue) / sum(count)) / 12 for fleet
\* and upsell
C23_RateFollowsValueShape ==
  Answered =>
    \A r \in rows :
      LET S == SourceRowsOf(r)
      IN  /\ r.vehicle_count = sumCount(S)
          /\ IF sumCount(S) = 0 THEN r.fleet_mrrpv = {}
             ELSE \E rate \in r.fleet_mrrpv :
                    /\ r.fleet_mrrpv = {rate}
                    /\ IF TheQuery.source = "first_purchase"
                       THEN IsRounded(rate, sumValueCount(S), sumCount(S))
                       ELSE IsRounded(rate, sumValue(S), 12 * sumCount(S))

\* first_purchase answered with a row over several source rows whose rate is their
\* weighted average, next to a row without vehicles
C23_Witness ==
  /\ Answered
  /\ TheQuery.source = "first_purchase"
  /\ \E r \in rows :
       /\ Cardinality(SourceRowsOf(r)) >= 2
       /\ \E rate \in r.fleet_mrrpv : ~IsRounded(rate, sumValueCount(SourceRowsOf(r)),
                                                  12 * sumCount(SourceRowsOf(r)))
  /\ \E r \in rows : r.fleet_mrrpv = {}

(***************************************************************************)
(* Empty filter lists (specification SpecQuery)                            *)
(***************************************************************************)

\* the list parameters of get_mrrpv, and of the filters of the query route
ArgListKeys ==
  {"regions", "exclude_regions", "segments", "exclude_segments", "industries",
   "exclude_industries"}

\* the members of an object that hold an empty list
EmptyLists(o, keys) == {k \in keys \cap DOMAIN o : o[k] = <<>>}

\* what getMRRpV makes of the invocation of the state when it is given as inv
CompiledFrom(inv) ==
  IF inv.name = "get_mrrpv" THEN getMRRpV(executeToolParams(inv.args, inv.context))
  ELSE getMRRpV(routeParams(inv.args))

\* the invocation without member k of its arguments (of its filters, on the route)
Without(inv, k) ==
  IF inv.name = "get_mrrpv" THEN [inv EXCEPT !.args = Del(inv.args, k)]
  ELSE [inv EXCEPT !.args = Put(inv.args, "filters", Del(inv.args.filters, k))]

\* the empty lists the invocation carries
EmptyListsOf(inv) ==
  IF inv.name = "get_mrrpv" THEN EmptyLists(inv.args, ArgListKeys)
  ELSE IF Has(inv.args, "filters") THEN EmptyLists(inv.args.filters, FilterListKeys)
  ELSE {}

\* the compiler has handled the invocation
Handled ==
  /\ params # {}
  /\ qpc \in {"runSql", "shape", "done"}
  /\ ~useBridge(tool.args) /\ ~useASP(tool.args)

\* the exclude-lists of the proposal that the include/restore correction emptied (it
\* runs when the request carries a current view)
Emptied ==
  IF toolCalls = <<>> \/ currentView = {} \/ qpc \in {"parse", "reconcile"} THEN {}
  ELSE {k \in {"exclude_regions", "exclude_segments", "exclude_industries"} :
          /\ NonEmptyArray(toolCalls[1].args, k)
          /\ \A i \in 1..Len(toolCalls[1].args[k]) :
               \/ toolCalls[1].args[k][i] \in getValuesToRestore(message).regions
               \/ toolCalls[1].args[k][i] \in getValuesToRestore(message).segments}

\* C24: an invocation that carries an empty include- or exclude-list compiles to the
\* statement (or the error) of the same invocation without that parameter, and an
\* exclude-list that the include/restore correction empties is removed from the
\* arguments the tool is invoked with
C24_EmptyListIsNoFilter ==
  /\ Handled =>
       \A k \in EmptyListsOf(tool) :
         /\ CompiledFrom(Without(tool, k)).query = query
         /\ CompiledFrom(Without(tool, k)).error = CompiledFrom(tool).error
         /\ query = {} => toolOut = {Failure(CHOOSE e \in CompiledFrom(Without(tool, k)).error :
                                               TRUE)}
  /\ \A k \in Emptied : ~Has(tool.args, k)

\* the correction emptied exclude_segments, the arguments still carry an empty
\* include-list, and the statement has no predicate on either dimension
C24_Witness ==
  /\ Handled
  /\ query # {}
  /\ "exclude_segments" \in Emptied
  /\ "regions" \in EmptyListsOf(tool)
  /\ PredicatesOn("geo") = <<>>
  /\ PredicatesOn("segment") = <<>>

(***************************************************************************)
(* The summary and the result of a turn (specification SpecChat)           *)
(***************************************************************************)

\* the summary the chat handler would build of call i alone
SummaryOfCall(i) == QuerySummaryOf(<<lastResultCalls[i]>>)

\* C25: in the answer of a turn, querySummary describes the arguments of the get_mrrpv
\* invocation whose result is answered as lastResult, and never those of an invocation
\* that failed
C25_SummaryDescribesReturnedResult ==
  (pc = "client" /\ response.status = 200) =>
    /\ \A r \in response.lastResult : response.querySummary = SummaryOfCall(r.call)
    /\ response.querySummary # {} =>
         \E i \in 1..Len(lastResultCalls) :
           /\ lastResultCalls[i].name = "get_mrrpv"
           /\ toolResults[i].success
           /\ response.querySummary = SummaryOfCall(i)



(***************************************************************************)
(* The rate limit of the chat endpoint: requests posted straight to the    *)
(* endpoint, with or without a conversation id, while time passes          *)
(***************************************************************************)

\* the requests of one behaviour
MaxRequests == 3

\* the values RATE_LIMIT_PER_MINUTE takes
RateLimits == {1, 2}

\* the addresses requests come from
Callers == {"10.0.0.1", "10.0.0.2"}

\* the requests posted: the address they come from, req.body.conversationId (missing, or
\* the id of a conversation) and req.body.message
Posts ==
  { [caller |-> "10.0.0.1", id |-> {},     text |-> "hi"],
    [caller |-> "10.0.0.2", id |-> {},     text |-> "hi"],
    [caller |-> "10.0.0.1", id |-> {"c1"}, text |-> "hi"],
    [caller |-> "10.0.0.2", id |-> {"c1"}, text |-> ""] }

\* a request reaches the endpoint
PostChat ==
  /\ pc = "idle"
  /\ Len(trace) < MaxRequests
  /\ \E post \in Posts :
       /\ remoteAddress' = post.caller
       /\ turns' = turns
       /\ clientConvId' = post.id
       /\ message' = post.text
       /\ trace' = Append(trace, [message |-> post.text, sentView |-> {}, convId |-> "",
                                  storedBefore |-> {}, storedAfter |-> {},
                                  status |-> 0, effective |-> {}, queried |-> FALSE,
                                  caller |-> post.caller, withId |-> post.id # {},
                                  at |-> clock])
  /\ currentView' = {}
  /\ pc' = "handler"
  /\ UNCHANGED <<backendVars, querySummary, selectedViewId, conversationId, history, response,
                 storeVars, agentVars, agentOut, llmCalls, executed>>

\* Date.now() moves on between requests
TimePasses ==
  /\ pc = "idle"
  /\ clock < MaxClock
  /\ clock' = clock + 1
  /\ UNCHANGED <<pc, clientVars, requestVars, conversationId, history, response, storeVars,
                 agentVars, agentOut, llmCalls, executed, queryVars, sqlPc, timeoutMs, start,
                 wakeAt, sqlOut, trace>>

\* the model answers in words, without a tool call
FirstReplyInWords ==
  /\ FirstReply
  /\ toolCalls' = <<>>

InitRate ==
  /\ pc = "idle"
  /\ selectedViewId = {}
  /\ querySummary = {}
  /\ clientConvId = {}
  /\ message = ""
  /\ currentView = {}
  /\ remoteAddress = "anon"
  /\ turns = <<>>
  /\ conversationId = ""
  /\ history = 0
  /\ response = NoResponse
  /\ conversations = EmptyObject
  /\ heap = <<>>
  /\ rateLimitPerMinute \in RateLimits
  /\ rateLimitTimestamps = EmptyObject
  /\ toolCalls = <<>>
  /\ idx = 1
  /\ lastResultCalls = <<>>
  /\ toolResults = <<>>
  /\ lastResult = {}
  /\ lastToolError = {}
  /\ agentOut = {}
  /\ llmCalls = 0
  /\ executed = <<>>
  /\ QueryIdle
  /\ SqlIdle
  /\ trace = <<>>

NextRate ==
  \/ PostChat
  \/ TimePasses
  \/ ChatHandlerStart
  \/ FirstReplyInWords
  \/ ChatHandlerFinish
  \/ ClientReceive

SpecRate == InitRate /\ [][NextRate]_vars

\* the status request i was answered with, 0 while it is being handled
StatusOf(i) ==
  IF i = Len(trace) /\ pc = "client" THEN response.status ELSE trace[i].status

\* the handler let request i through: past the message check and the rate limit
Accepted(i) ==
  /\ i < Len(trace) \/ pc # "handler"
  /\ StatusOf(i) \notin {400, 429}

\* the instants of a behaviour
Instants == 0..(MaxClock + 1)

\* the requests that came in during the window that ends at instant t
InWindow(t) == {i \in 1..Len(trace) : trace[i].at > t - RateWindow /\ trace[i].at <= t}

(***************************************************************************)
(* C26                                                                     *)
(***************************************************************************)

\* C26: with a positive limit N, of the requests one caller address sends without a
\* conversation id within any one window, at most N are accepted
C26_IdlessLimitedByCaller ==
  rateLimitPerMinute > 0 =>
    \A caller \in Callers, t \in Instants :
      Cardinality({i \in InWindow(t) :
                     /\ trace[i].caller = caller
                     /\ ~trace[i].withId
                     /\ Accepted(i)}) <= rateLimitPerMinute

(***************************************************************************)
(* C30                                                                     *)
(***************************************************************************)

\* the key the handler limits request i by
KeyOf(i) == trace[i].convId

\* at most N requests accepted for one key within any one window
AcceptedWithinLimit ==
  rateLimitPerMinute > 0 =>
    \A i \in 1..Len(trace), t \in Instants :
      Accepted(i) =>
        Cardinality({j \in InWindow(t) : Accepted(j) /\ KeyOf(j) = KeyOf(i)})
          <= rateLimitPerMinute

\* the handler answers 429
Rejects == pc = "handler" /\ response'.status = 429

\* C30: with a positive limit N, for every key and every instant at most N requests were
\* accepted for the key during the window before it, and a request answered 429 leaves
\* the timestamps of the limit and the conversation histories as they were
C30_LimitHoldsPerKey ==
  /\ []AcceptedWithinLimit
  /\ [][Rejects => /\ rateLimitTimestamps' = rateLimitTimestamps
                   /\ conversations' = conversations
                   /\ heap' = heap]_vars

\* a third request on one conversation within the window was answered 429 after two were
\* accepted
C30_Witness ==
  /\ rateLimitPerMinute = 2
  /\ pc = "idle"
  /\ \E i \in 1..Len(trace) :
       /\ trace[i].status = 429
       /\ Cardinality({j \in InWindow(trace[i].at) : Accepted(j) /\ KeyOf(j) = KeyOf(i)}) = 2


(***************************************************************************)
(* C29                                                                     *)
(***************************************************************************)

\* the rows of r line up with its columns: as many cells as columns, cell i of column i
RowsFollowColumns(r) ==
  \A j \in 1..Len(r.rows) :
    /\ Len(r.rows[j]) = Len(r.columns)
    /\ \A i \in 1..Len(r.columns) : r.rows[j][i].name = r.columns[i]

\* the helper column of the constant group shows nowhere in r
WithoutHelperColumn(r) ==
  /\ \A i \in 1..Len(r.columns) : r.columns[i] # "_grp"
  /\ \A j \in 1..Len(r.rows) : \A i \in 1..Len(r.rows[j]) : r.rows[j][i].name # "_grp"
  /\ \A j \in 1..Len(r.data) : "_grp" \notin DOMAIN r.data[j]

\* C29: in every result getMRRpV returns, each row has as many cells as there are columns
\* and cell i holds the value of column i, in every grouping mode; _grp is in neither
\* columns, rows nor data
C29_RowsLineUpWithColumns ==
  \A r \in result : RowsFollowColumns(r) /\ WithoutHelperColumn(r)


(***************************************************************************)
(* C28                                                                     *)
(***************************************************************************)

\* the tool call at hand came with an arguments text that is not valid JSON (the empty
\* text, which stands for a call without arguments, left aside)
InvalidArguments ==
  /\ qpc # "parse"
  /\ idx <= Len(toolCalls)
  /\ "arguments" \in DOMAIN toolCalls[idx]
  /\ toolCalls[idx].arguments # ""
  /\ ~IsJson(toolCalls[idx].arguments)

\* C28: a tool call whose arguments text is not valid JSON runs no statement, and its tool
\* output is an error
C28_InvalidArgumentsRunNoQuery ==
  InvalidArguments =>
    /\ query = {}
    /\ qpc = "done" => \E out \in toolOut : ~out.success


(***************************************************************************)
(* Chat turns side by side: every request runs the handler with locals of  *)
(* its own, and the handlers take turns at the await of runAgent           *)
(***************************************************************************)

\* the requests of one behaviour
NumTurns == 3

\* the conversation ids the requests carry
TurnIds == {"c1", "c2"}

\* the user message of request i and the reply runAgent gives to it
userMessageOf(i) == [role |-> "user", content |-> "question " \o ToString(i)]
assistantReplyOf(i) == [role |-> "assistant", content |-> "answer " \o ToString(i)]

\* request i has not come in yet
NotStarted == [tpc |-> "none", id |-> "", history |-> 0]

\* chat.js 188-207: the handler of request i runs up to the await of runAgent: the
\* stored array of the conversation or a new one, the user message pushed onto it
TurnStart(i) ==
  /\ turns[i].tpc = "none"
  /\ \E id \in TurnIds :
       IF Has(conversations, id)
       THEN /\ turns' = [turns EXCEPT ![i] = [tpc |-> "await", id |-> id,
                                              history |-> conversations[id]]]
            /\ heap' = [heap EXCEPT ![conversations[id]] = Append(@, userMessageOf(i))]
       ELSE /\ turns' = [turns EXCEPT ![i] = [tpc |-> "await", id |-> id,
                                              history |-> Len(heap) + 1]]
            /\ heap' = Append(heap, <<userMessageOf(i)>>)
  /\ trace' = Append(trace, [turn |-> i, event |-> "start"])
  /\ UNCHANGED <<pc, clientVars, message, currentView, remoteAddress, conversationId, history,
                 response, conversations, rateVars, agentVars, agentOut, llmCalls, executed,
                 backendVars>>

\* chat.js 229-230 without conversations.set
TurnFinishWithoutSet(i) ==
  /\ turns[i].tpc = "await"
  /\ heap' = [heap EXCEPT ![turns[i].history] = Append(@, assistantReplyOf(i))]
  /\ turns' = [turns EXCEPT ![i].tpc = "done"]
  /\ trace' = Append(trace, [turn |-> i, event |-> "finish"])
  /\ UNCHANGED <<pc, clientVars, message, currentView, remoteAddress, conversationId, history,
                 response, conversations, rateVars, agentVars, agentOut, llmCalls, executed,
                 backendVars>>

\* chat.js 208-269: runAgent has returned to the handler of request i: the reply pushed
\* onto the handler's array, the array stored under the conversation id, 200 answered
TurnFinish(i) ==
  /\ turns[i].tpc = "await"
  /\ heap' = [heap EXCEPT ![turns[i].history] = Append(@, assistantReplyOf(i))]
  /\ conversations' = Put(conversations, turns[i].id, turns[i].history)
  /\ turns' = [turns EXCEPT ![i].tpc = "done"]
  /\ trace' = Append(trace, [turn |-> i, event |-> "finish"])
  /\ UNCHANGED <<pc, clientVars, message, currentView, remoteAddress, conversationId, history,
                 response, rateVars, agentVars, agentOut, llmCalls, executed, backendVars>>

\* chat.js 212-218, 270-294: runAgent threw to the handler of request i; 500 answered
TurnFails(i) ==
  /\ turns[i].tpc = "await"
  /\ turns' = [turns EXCEPT ![i].tpc = "failed"]
  /\ trace' = Append(trace, [turn |-> i, event |-> "fail"])
  /\ UNCHANGED <<pc, clientVars, message, currentView, remoteAddress, conversationId, history,
                 response, storeVars, agentVars, agentOut, llmCalls, executed, backendVars>>

\* the store at the start: empty, or conversation c1 stored with one turn
InitTurns ==
  /\ pc = "idle"
  /\ selectedViewId = {}
  /\ querySummary = {}
  /\ clientConvId = {}
  /\ message = ""
  /\ currentView = {}
  /\ remoteAddress = "anon"
  /\ turns = [i \in 1..NumTurns |-> NotStarted]
  /\ conversationId = ""
  /\ history = 0
  /\ response = NoResponse
  /\ \/ conversations = EmptyObject /\ heap = <<>>
     \/ /\ conversations = Put(EmptyObject, "c1", 1)
        /\ heap = <<  <<userMessageOf(0), assistantReplyOf(0)>>  >>
  /\ RateLimitOff
  /\ toolCalls = <<>>
  /\ idx = 1
  /\ lastResultCalls = <<>>
  /\ toolResults = <<>>
  /\ lastResult = {}
  /\ lastToolError = {}
  /\ agentOut = {}
  /\ llmCalls = 0
  /\ executed = <<>>
  /\ QueryIdle
  /\ SqlIdle
  /\ trace = <<>>

NextTurns ==
  \/ \E i \in 1..NumTurns : TurnStart(i)
  \/ \E i \in 1..NumTurns : TurnFinish(i)
  \/ \E i \in 1..NumTurns : TurnFails(i)

SpecTurns == InitTurns /\ [][NextTurns]_vars

(***************************************************************************)
(* C27                                                                     *)
(***************************************************************************)

\* list holds x immediately followed by y
Adjacent(list, x, y) == \E k \in 1..(Len(list) - 1) : list[k] = x /\ list[k + 1] = y

\* the stored history of the conversation of request i holds the user message of i
\* immediately followed by its reply
KeptTogether(i) ==
  \E stored \in Stored(turns[i].id) : Adjacent(stored, userMessageOf(i), assistantReplyOf(i))

\* the place of an event of request i in the order of events, 0 when it has not happened
EventAt(i, events) ==
  IF \E k \in 1..Len(trace) : trace[k].turn = i /\ trace[k].event \in events
  THEN CHOOSE k \in 1..Len(trace) : trace[k].turn = i /\ trace[k].event \in events
  ELSE 0

\* requests i and j ran side by side: each came in before the other was answered
Overlap(i, j) ==
  /\ i # j
  /\ EventAt(i, {"start"}) > 0 /\ EventAt(j, {"start"}) > 0
  /\ EventAt(j, {"finish", "fail"}) = 0 \/ EventAt(i, {"start"}) < EventAt(j, {"finish", "fail"})
  /\ EventAt(i, {"finish", "fail"}) = 0 \/ EventAt(j, {"start"}) < EventAt(i, {"finish", "fail"})

\* every request has been answered 200
AllSucceeded == \A i \in 1..NumTurns : turns[i].tpc = "done"

\* C27 as stated: after any interleaving of successful turns, turns that ran side by side
\* included, the stored history holds every turn's user message immediately followed by
\* that turn's reply
C27_NoTurnLostOrSeparated ==
  AllSucceeded => \A i \in 1..NumTurns : KeptTogether(i)

\* list holds x and, somewhere after it, y
FollowsLater(list, x, y) ==
  \E k \in 1..Len(list) : \E l \in (k + 1)..Len(list) : list[k] = x /\ list[l] = y

\* C27: a successful turn that ran side by side with no other turn on its conversation id
\* has its user message immediately followed by its reply in the stored history; and the
\* stored history of a conversation is the array of the successful turn on it that was
\* answered last (last write wins), which holds that turn's user message and, after it,
\* that turn's reply
C27_TurnsInSequenceKeptTogether ==
  /\ \A i \in 1..NumTurns :
       (/\ turns[i].tpc = "done"
        /\ \A j \in 1..NumTurns : turns[j].id = turns[i].id => ~Overlap(i, j))
         => KeptTogether(i)
  /\ \A i \in 1..NumTurns :
       (/\ turns[i].tpc = "done"
        /\ \A j \in 1..NumTurns :
             (turns[j].tpc = "done" /\ turns[j].id = turns[i].id)
               => EventAt(j, {"finish"}) <= EventAt(i, {"finish"}))
         => /\ conversations[turns[i].id] = turns[i].history
            /\ FollowsLater(heap[turns[i].history], userMessageOf(i), assistantReplyOf(i))

\* three turns on a new conversation, one after the other, all in the stored history
C27_Witness ==
  /\ AllSucceeded
  /\ \A i, j \in 1..NumTurns : turns[i].id = turns[j].id /\ ~Overlap(i, j)
  /\ \E stored \in Stored(turns[1].id) : Len(stored) = 2 * NumTurns
  /\ \A i \in 1..NumTurns : KeptTogether(i)

====
